---------------------------- MODULE Spec2Model ----------------------------
(***************************************************************************)
(* TEMPEST ground station: the serial stream framer (processReceivedData), *)
(* the telemetry decoder (unpackCommand), the image reassembler            *)
(* (processImagePacket / completeImageReception) and the retransmission    *)
(* coordinator (requestRetransmission).                                    *)
(*                                                                         *)
(* Bytes and UTF-16 code units are integers; byte arrays and strings are   *)
(* sequences of them.  Positions are the 0-based positions of the source:  *)
(* Slice(s, a, b) is s.slice(a, b).  A JavaScript Map is a sequence of     *)
(* [k, v] entries in insertion order.  Every synchronous handler is an     *)
(* operator from a world record (the globals it may touch) to a world      *)
(* record; an action commits the world its handler returns.                *)
(***************************************************************************)
EXTENDS Integers, Sequences, FiniteSets, TLC

VARIABLES
    dataBuffer,            \* part_000:10   unconsumed serial bytes
    configBuffer,          \* part_000:11   collected RADIO_CONFIG lines
    collectingConfig,      \* part_000:12
    pollBuffer,            \* main.js:5     POLL accumulator
    obclDataArray,         \* main.js:6     OBCP accumulator
    imageReceptions,       \* part_001:5    Map imageId -> reception
    imagePacketBuffer,     \* part_001:6    Map imageId -> Map index -> text
    currentImageFilename,  \* part_001:8    Null or a string
    writer,                \* part_000:7    "null" or "open"
    readLoop,              \* part_000:9    "null", "running" or "ended"
    now,                   \* Date.now(), in ms
    log,                   \* the output sink: logToTerminal(message, type)
    written,               \* the transport: every writer.write(bytes)
    pending,               \* unsettled gzip decompression promises
    rt,                    \* the requestRetransmission call in flight
    frames,                \* history: frames handed to the three handlers
    completions,           \* history: completeImageReception invocations
    stream,                \* the bytes the far end sends in this run
    pos,                   \* how many of them the transport has delivered
    calls                  \* history: operations started so far

vars == <<dataBuffer, configBuffer, collectingConfig, pollBuffer, obclDataArray,
          imageReceptions, imagePacketBuffer, currentImageFilename, writer,
          readLoop, now, log, written, pending, rt, frames, completions,
          stream, pos, calls>>

\* null, for the variables that hold a string otherwise
Null == <<-1>>

(***************************************************************************)
(* JavaScript primitives                                                   *)
(***************************************************************************)
Min(a, b) == IF a <= b THEN a ELSE b

Max(a, b) == IF a >= b THEN a ELSE b

Range(s) == {s[i] : i \in 1..Len(s)}

\* s.slice(a, b) for 0 <= a: the elements at 0-based positions a .. b-1.
Slice(s, a, b) == SubSeq(s, a + 1, Min(b, Len(s)))

\* s.slice(a)
SliceFrom(s, a) == SubSeq(s, a + 1, Len(s))

\* s[i], 0-based
At(s, i) == s[i + 1]

\* The smallest of the indices in hits, or -1: a for loop that breaks at
\* its first hit.
FirstIndex(hits) ==
    IF hits = {} THEN -1 ELSE CHOOSE i \in hits : \A j \in hits : i <= j

\* The largest of the indices in hits, or -1: a backward loop that breaks at
\* its first hit.
LastIndex(hits) ==
    IF hits = {} THEN -1 ELSE CHOOSE i \in hits : \A j \in hits : i >= j

RECURSIVE Flatten(_)
Flatten(ss) == IF ss = <<>> THEN <<>> ELSE Head(ss) \o Flatten(Tail(ss))

\* Math.floor(a / b) for b > 0 and any integer a.
FloorDiv(a, b) == a \div b

IsNewline(b) == b = 10 \/ b = 13

IsDigit(c) == c >= 48 /\ c <= 57

IsUpper(c) == c >= 65 /\ c <= 90

IsLower(c) == c >= 97 /\ c <= 122

\* White space of String.prototype.trim among the code units the model uses.
IsSpace(c) == c \in {9, 10, 11, 12, 13, 32, 160}

\* str.trim()
Trim(s) ==
    LET inked == {i \in 0..(Len(s) - 1) : ~IsSpace(At(s, i))}
    IN  IF inked = {} THEN <<>> ELSE Slice(s, FirstIndex(inked), LastIndex(inked) + 1)

\* str.replace(/\0/g, '')
RemoveNul(s) == SelectSeq(s, LAMBDA c : c # 0)

\* new TextDecoder().decode(bytes): UTF-8.  An ASCII byte is its own code
\* unit; a byte of 0x80 and above never decodes to an ASCII code unit, and
\* is given as U+FFFD, which is what a lone such byte decodes to.
TextDecode(bytes) == [i \in 1..Len(bytes) |-> IF bytes[i] < 128 THEN bytes[i] ELSE 65533]

\* new TextEncoder().encode(str), for the ASCII strings of the outbound
\* protocol: one byte per code unit.
TextEncode(str) == [i \in 1..Len(str) |-> str[i]]

\* String(n) for an integer n >= 0: its decimal digits.
RECURSIVE ToDecimal(_)
ToDecimal(n) == IF n < 10 THEN <<48 + n>> ELSE ToDecimal(n \div 10) \o <<48 + (n % 10)>>

\* parseInt(str, 10) for a string of decimal digits.
RECURSIVE ParseInt(_)
ParseInt(s) ==
    IF s = <<>> THEN 0 ELSE 10 * ParseInt(SubSeq(s, 1, Len(s) - 1)) + (s[Len(s)] - 48)

\* nums.join(' ')
RECURSIVE JoinSpace(_)
JoinSpace(nums) ==
    IF nums = <<>> THEN <<>>
    ELSE IF Len(nums) = 1 THEN ToDecimal(nums[1])
    ELSE ToDecimal(nums[1]) \o <<32>> \o JoinSpace(Tail(nums))

\* str.split(/\s+/)
RECURSIVE SplitSpace(_)
SplitSpace(s) ==
    LET sp == FirstIndex({i \in 0..(Len(s) - 1) : IsSpace(At(s, i))})
    IN  IF sp = -1 THEN <<s>>
        ELSE LET rest == FirstIndex({i \in sp..(Len(s) - 1) : ~IsSpace(At(s, i))})
             IN  <<Slice(s, 0, sp)>> \o
                 (IF rest = -1 THEN <<<<>>>> ELSE SplitSpace(SliceFrom(s, rest)))

\* str.toUpperCase() on ASCII
ToUpperCase(s) == [i \in 1..Len(s) |-> IF IsLower(s[i]) THEN s[i] - 32 ELSE s[i]]

StartsWith(s, p) == Len(s) >= Len(p) /\ SubSeq(s, 1, Len(p)) = p

\* str.includes(p)
Includes(s, p) == \E i \in 0..(Len(s) - Len(p)) : Slice(s, i, i + Len(p)) = p

\* view.getUint32(off, true): little endian
GetUint32(bytes, off) ==
    At(bytes, off) + 256 * At(bytes, off + 1) + 65536 * At(bytes, off + 2)
        + 16777216 * At(bytes, off + 3)

(***************************************************************************)
(* Map: entries in insertion order (set keeps a present key's place).      *)
(***************************************************************************)
MapKeys(m) == {m[i].k : i \in 1..Len(m)}

MapHas(m, key) == key \in MapKeys(m)

MapGet(m, key) == (CHOOSE e \in Range(m) : e.k = key).v

MapSet(m, key, val) ==
    IF MapHas(m, key)
    THEN [i \in 1..Len(m) |-> IF m[i].k = key THEN [k |-> key, v |-> val] ELSE m[i]]
    ELSE Append(m, [k |-> key, v |-> val])

MapDelete(m, key) == SelectSeq(m, LAMBDA e : e.k # key)

(***************************************************************************)
(* The 4-byte identifiers                                                  *)
(***************************************************************************)
tagSEND == <<83, 69, 78, 68>>
tagRETX == <<82, 69, 84, 88>>
tagGYRO == <<71, 89, 82, 79>>
tagACCL == <<65, 67, 67, 76>>
tagMAGN == <<77, 65, 71, 78>>
tagGRAV == <<71, 82, 65, 86>>
tagEULR == <<69, 85, 76, 82>>
tagBMED == <<66, 77, 69, 68>>
tagPOLL == <<80, 79, 76, 76>>
tagOBCR == <<79, 66, 67, 82>>
tagOBCD == <<79, 66, 67, 68>>
tagOBCC == <<79, 66, 67, 67>>
tagOBCL == <<79, 66, 67, 76>>
tagOBCP == <<79, 66, 67, 80>>
tagADCS == <<65, 68, 67, 83>>
tagEPSS == <<69, 80, 83, 83>>
tagHOST == <<72, 79, 83, 84>>
tagSOLR == <<83, 79, 76, 82>>

\* The identifiers the chunk scan takes for the start of the next frame.
nextIdentifiers ==
    {tagSEND, tagRETX, tagGYRO, tagACCL, tagMAGN, tagGRAV, tagEULR, tagBMED,
     tagPOLL, tagOBCR, tagOBCD, tagOBCC, tagOBCL, tagOBCP, tagADCS, tagEPSS,
     tagHOST, tagSOLR}

binaryIdentifiers ==
    {tagGYRO, tagACCL, tagMAGN, tagGRAV, tagEULR, tagBMED, tagPOLL, tagOBCR,
     tagOBCD, tagOBCC, tagOBCL, tagOBCP, tagADCS, tagEPSS, tagHOST, tagSOLR,
     tagRETX}

(***************************************************************************)
(* The output sink and the history of handler calls                        *)
(***************************************************************************)
\* logToTerminal(message, type): the message is a tag (its fixed text) and
\* the values interpolated into it.
Log(w, sev, tag, data) ==
    [w EXCEPT !.log = Append(@, [sev |-> sev, tag |-> tag, data |-> data])]

Handed(w, kind, bytes) ==
    [w EXCEPT !.frames = Append(@, [kind |-> kind, bytes |-> bytes])]

(***************************************************************************)
(* Base64 and gzip, as the browser provides them                           *)
(***************************************************************************)
\* /[A-Za-z0-9\/+=]/.test(char), and the same test on bytes in the framer.
IsPacketChar(c) == IsUpper(c) \/ IsLower(c) \/ IsDigit(c) \/ c = 47 \/ c = 43 \/ c = 61

\* /[A-Za-z0-9+/]/
IsBase64Digit(c) == IsUpper(c) \/ IsLower(c) \/ IsDigit(c) \/ c = 47 \/ c = 43

\* chunk.replace(/=+$/, '')
StripPadding(chunk) ==
    LET last == LastIndex({i \in 0..(Len(chunk) - 1) : At(chunk, i) # 61})
    IN  Slice(chunk, 0, last + 1)

\* /^[A-Za-z0-9+/]*={0,2}$/.test(str)
MatchesBase64(str) ==
    LET body == StripPadding(str)
    IN  /\ Len(str) - Len(body) <= 2
        /\ \A i \in 1..Len(body) : IsBase64Digit(body[i])

Base64Value(c) ==
    IF IsUpper(c) THEN c - 65
    ELSE IF IsLower(c) THEN c - 97 + 26
    ELSE IF IsDigit(c) THEN c - 48 + 52
    ELSE IF c = 43 THEN 62 ELSE 63

\* The bytes of a string of base64 digits whose length is not 1 modulo 4.
RECURSIVE Base64Bytes(_)
Base64Bytes(d) ==
    IF Len(d) < 2 THEN <<>>
    ELSE LET v1 == Base64Value(d[1])
             v2 == Base64Value(d[2])
             b1 == v1 * 4 + (v2 \div 16)
         IN  IF Len(d) = 2 THEN <<b1>>
             ELSE LET v3 == Base64Value(d[3])
                      b2 == (v2 % 16) * 16 + (v3 \div 4)
                  IN  IF Len(d) = 3 THEN <<b1, b2>>
                      ELSE LET v4 == Base64Value(d[4])
                               b3 == (v3 % 4) * 64 + v4
                           IN  <<b1, b2, b3>> \o Base64Bytes(SubSeq(d, 5, Len(d)))

\* atob(str) (forgiving-base64 decode) for a string without white space:
\* padding is removed only when the length is a multiple of 4; a length of
\* 1 modulo 4 or any remaining non-digit throws.
Atob(str) ==
    LET pad  == Len(str) - Len(StripPadding(str))
        data == IF Len(str) % 4 = 0 /\ pad > 0
                THEN SubSeq(str, 1, Len(str) - Min(pad, 2))
                ELSE str
    IN  IF Len(data) % 4 = 1 \/ \E i \in 1..Len(data) : ~IsBase64Digit(data[i])
        THEN [ok |-> FALSE, bytes |-> <<>>]
        ELSE [ok |-> TRUE, bytes |-> Base64Bytes(data)]

\* A gzip stream the browser decompresses: the 20-byte stream of the empty
\* file (header, an empty deflate block, CRC32 and size of nothing).
emptyGzip == <<31, 139, 8, 0, 0, 0, 0, 0, 0, 3, 3, 0, 0, 0, 0, 0, 0, 0, 0, 0>>

\* What DecompressionStream('gzip') does with the bytes: "resolve" for the
\* stream above, "reject" for bytes that cannot be a gzip stream (shorter
\* than header and trailer, or without the magic number and deflate
\* method), and "either" for the rest, whose verdict hangs on a deflate
\* body the model does not decode.
GzipVerdict(bytes) ==
    IF bytes = emptyGzip THEN "resolve"
    ELSE IF Len(bytes) < 18 \/ bytes[1] # 31 \/ bytes[2] # 139 \/ bytes[3] # 8 THEN "reject"
    ELSE "either"

(***************************************************************************)
(* Image reassembly (part_001)                                             *)
(***************************************************************************)
\* `img_${totalChunks}` is <<total>>, `img_${totalChunks}_${Date.now()}` is
\* <<total, time>>.
ImageId(totalChunks) == <<totalChunks>>

StampedImageId(totalChunks, t) == <<totalChunks, t>>

\* `image_${totalChunks}.jpg.gz`
DefaultFilename(totalChunks) ==
    <<105, 109, 97, 103, 101, 95>> \o ToDecimal(totalChunks)
        \o <<46, 106, 112, 103, 46, 103, 122>>

\* '.chunked'
chunkedSuffix == <<46, 99, 104, 117, 110, 107, 101, 100>>

\* FindOrCreateImageReception that looks the reception up under the proposed
\* id instead of its total.
FindOrCreateById(w, imageId, totalChunks, currentChunk, filename, t) ==
    IF currentChunk = 0 /\ MapHas(w.imageReceptions, imageId)
    THEN [w |-> w, id |-> imageId]
    ELSE LET actualImageId == IF currentChunk = 0 THEN imageId
                              ELSE StampedImageId(totalChunks, t)
             info == [totalChunks        |-> totalChunks,
                      receivedChunks     |-> {},
                      startTime          |-> t,
                      lastPacketTime     |-> t,
                      retransmitAttempts |-> 0,
                      filename           |-> DefaultFilename(totalChunks)]
         IN  [w  |-> [w EXCEPT !.imageReceptions = MapSet(@, actualImageId, info),
                               !.imagePacketBuffer = MapSet(@, actualImageId, <<>>)],
              id |-> actualImageId]

\* findOrCreateImageReception: [w, id]
FindOrCreateImageReception(w, imageId, totalChunks, currentChunk, filename, t) ==
    LET existing == FirstIndex({i \in 1..Len(w.imageReceptions) :
                                   w.imageReceptions[i].v.totalChunks = totalChunks})
    IN  IF existing # -1 THEN [w |-> w, id |-> w.imageReceptions[existing].k]
        ELSE LET actualImageId == IF currentChunk = 0 THEN imageId
                                  ELSE StampedImageId(totalChunks, t)
                 info == [totalChunks        |-> totalChunks,
                          receivedChunks     |-> {},
                          startTime          |-> t,
                          lastPacketTime     |-> t,
                          retransmitAttempts |-> 0,
                          filename           |-> IF filename # Null /\ filename # <<>>
                                                 THEN filename
                                                 ELSE DefaultFilename(totalChunks)]
                 w1 == [w EXCEPT
                          !.imageReceptions = MapSet(@, actualImageId, info),
                          !.imagePacketBuffer = MapSet(@, actualImageId, <<>>)]
             IN  [w  |-> Log(w1, "info", "Starting image reception",
                             actualImageId \o <<totalChunks>>),
                  id |-> actualImageId]

\* Reconstruct taking the chunks as the Map iterates them, in arrival order.
ReconstructAsArrived(packetBuffer, totalChunks, i) ==
    IF \E j \in i..(totalChunks - 1) : ~MapHas(packetBuffer, j)
    THEN [ok |-> FALSE, data |-> <<>>,
          missing |-> CHOOSE j \in i..(totalChunks - 1) : ~MapHas(packetBuffer, j)]
    ELSE [ok      |-> TRUE,
          data    |-> Flatten([n \in 1..Len(packetBuffer) |->
                                   IF packetBuffer[n].k < totalChunks - 1
                                   THEN StripPadding(packetBuffer[n].v)
                                   ELSE packetBuffer[n].v]),
          missing |-> -1]

\* The reconstruction loop of completeImageReception: [ok, data, missing].
RECURSIVE Reconstruct(_, _, _)
Reconstruct(packetBuffer, totalChunks, i) ==
    IF i >= totalChunks THEN [ok |-> TRUE, data |-> <<>>, missing |-> -1]
    ELSE IF ~MapHas(packetBuffer, i) THEN [ok |-> FALSE, data |-> <<>>, missing |-> i]
    ELSE LET chunk == IF i < totalChunks - 1
                      THEN StripPadding(MapGet(packetBuffer, i))
                      ELSE MapGet(packetBuffer, i)
             rest  == Reconstruct(packetBuffer, totalChunks, i + 1)
         IN  IF rest.ok THEN [rest EXCEPT !.data = chunk \o @] ELSE rest

Completed(w, imageId, data, outcome) ==
    [w EXCEPT !.completions =
        Append(@, [imageId |-> imageId, data |-> data, outcome |-> outcome])]

\* completeImageReception up to the point where the decompression promise
\* is created; its continuation is DecompressResolve / DecompressReject.
CompleteImageReception(w, imageId) ==
    IF ~MapHas(w.imageReceptions, imageId) \/ ~MapHas(w.imagePacketBuffer, imageId)
    THEN Completed(Log(w, "error", "Missing data for image", imageId),
                   imageId, <<>>, "missingData")
    ELSE LET imageInfo    == MapGet(w.imageReceptions, imageId)
             packetBuffer == MapGet(w.imagePacketBuffer, imageId)
             rec          == Reconstruct(packetBuffer, imageInfo.totalChunks, 0)
             decoded      == Atob(rec.data)
             bytes        == decoded.bytes
             noMagic      == Len(bytes) < 2 \/ bytes[1] # 31 \/ bytes[2] # 139
             w1           == IF noMagic
                             THEN Log(w, "warning", "File doesn't start with gzip magic number", <<>>)
                             ELSE w
         IN  IF ~rec.ok
             THEN Completed(Log(w, "error", "Missing chunk during reconstruction",
                                imageId \o <<rec.missing>>),
                            imageId, <<>>, "missingChunk")
             ELSE IF ~MatchesBase64(rec.data)
             THEN Completed(Log(w, "error", "Invalid base64 characters detected", imageId),
                            imageId, rec.data, "invalidBase64")
             ELSE IF ~decoded.ok
             THEN Completed(Log(w, "error", "Failed to decode image", imageId),
                            imageId, rec.data, "decodeError")
             ELSE IF Len(bytes) < 2
             \* bytes[1].toString(16) of the console line throws on undefined
             THEN Completed(Log(w1, "error", "Failed to decode image", imageId),
                            imageId, rec.data, "decodeError")
             ELSE Completed([w1 EXCEPT !.pending =
                                Append(@, [imageId |-> imageId, bytes |-> bytes,
                                           startTime |-> imageInfo.startTime])],
                            imageId, rec.data, "decompressing")

\* The validEnd loop: the end of the packet once trailing characters outside
\* the packet alphabet (from position 4 on) are cut.
ValidEnd(packetStr) ==
    LET lastValid == LastIndex({i \in 4..(Len(packetStr) - 1) : IsPacketChar(At(packetStr, i))})
    IN  IF lastValid # -1 THEN lastValid + 1 ELSE Min(4, Len(packetStr))

\* LogResponse that logs nothing.
LogResponseSilent(w, packetStr, validEnd) == w

\* The four "display as a command response" exits.
LogResponse(w, packetStr, validEnd) ==
    LET response == Trim(Slice(packetStr, 4, validEnd))
    IN  IF Len(response) > 0 THEN Log(w, "response", "response", response) ELSE w

\* StoreChunk without the duplicate check.
StoreChunkAgain(w, totalChunks, currentChunk, chunkData, filename, t) ==
    LET found        == FindOrCreateImageReception(w, ImageId(totalChunks), totalChunks,
                                                   currentChunk, filename, t)
        w1           == found.w
        actualId     == found.id
        imageInfo    == MapGet(w1.imageReceptions, actualId)
        packetBuffer == MapGet(w1.imagePacketBuffer, actualId)
        info2        == [imageInfo EXCEPT !.receivedChunks = @ \cup {currentChunk},
                                          !.lastPacketTime = t]
        w2           == [w1 EXCEPT
                           !.imagePacketBuffer =
                               MapSet(@, actualId, MapSet(packetBuffer, currentChunk, chunkData)),
                           !.imageReceptions = MapSet(@, actualId, info2)]
    IN  IF Cardinality(info2.receivedChunks) = info2.totalChunks
        THEN CompleteImageReception(w2, actualId)
        ELSE w2

\* StoreChunk completing one chunk early.
StoreChunkEarly(w, totalChunks, currentChunk, chunkData, filename, t) ==
    LET found        == FindOrCreateImageReception(w, ImageId(totalChunks), totalChunks,
                                                   currentChunk, filename, t)
        w1           == found.w
        actualId     == found.id
        imageInfo    == MapGet(w1.imageReceptions, actualId)
        packetBuffer == MapGet(w1.imagePacketBuffer, actualId)
        info2        == [imageInfo EXCEPT !.receivedChunks = @ \cup {currentChunk},
                                          !.lastPacketTime = t]
        w2           == [w1 EXCEPT
                           !.imagePacketBuffer =
                               MapSet(@, actualId, MapSet(packetBuffer, currentChunk, chunkData)),
                           !.imageReceptions = MapSet(@, actualId, info2)]
    IN  IF currentChunk \in imageInfo.receivedChunks THEN w1
        ELSE IF Cardinality(info2.receivedChunks) >= info2.totalChunks - 1
        THEN CompleteImageReception(w2, actualId)
        ELSE w2

\* The part of processImagePacket after the metadata is validated.
StoreChunk(w, totalChunks, currentChunk, chunkData, filename, t) ==
    LET found        == FindOrCreateImageReception(w, ImageId(totalChunks), totalChunks,
                                                   currentChunk, filename, t)
        w1           == found.w
        actualId     == found.id
        imageInfo    == MapGet(w1.imageReceptions, actualId)
        packetBuffer == MapGet(w1.imagePacketBuffer, actualId)
        info2        == [imageInfo EXCEPT !.receivedChunks = @ \cup {currentChunk},
                                          !.lastPacketTime = t]
        w2           == [w1 EXCEPT
                           !.imagePacketBuffer =
                               MapSet(@, actualId, MapSet(packetBuffer, currentChunk, chunkData)),
                           !.imageReceptions = MapSet(@, actualId, info2)]
        w3           == IF currentChunk % 50 = 0 \/ currentChunk = 0
                           \/ currentChunk = totalChunks - 1
                        THEN Log(w2, "response", "Image progress",
                                 actualId \o <<Cardinality(info2.receivedChunks), totalChunks>>)
                        ELSE w2
    IN  IF currentChunk \in imageInfo.receivedChunks THEN w1
        ELSE IF Cardinality(info2.receivedChunks) = info2.totalChunks
        THEN CompleteImageReception(w3, actualId)
        ELSE w3

\* processImagePacket(packet) at time t, with currentImageFilename = filename.
ProcessImagePacket(w, packet, filename, t) ==
    LET packetStr     == TextDecode(packet)
        identifier    == Slice(packetStr, 0, 4)
        validEnd      == ValidEnd(packetStr)
        metadataStart == validEnd - 8
        metadata      == Slice(packetStr, metadataStart, validEnd)
        totalChunks   == ParseInt(Slice(packetStr, metadataStart, metadataStart + 4))
        currentChunk  == ParseInt(Slice(packetStr, metadataStart + 4, metadataStart + 8))
        chunkData     == Slice(packetStr, 4, metadataStart)
    IN  IF identifier # tagSEND /\ identifier # tagRETX
        THEN Log(w, "warning", "Packet does not start with SEND/RETX identifier", <<>>)
        ELSE IF validEnd <= 12 THEN LogResponse(w, packetStr, validEnd)
        ELSE IF \E i \in 1..8 : ~IsDigit(metadata[i]) THEN LogResponse(w, packetStr, validEnd)
        ELSE IF totalChunks <= 0 \/ currentChunk < 0 THEN LogResponse(w, packetStr, validEnd)
        ELSE IF currentChunk >= totalChunks THEN LogResponse(w, packetStr, validEnd)
        ELSE IF Len(chunkData) = 0
        THEN Log(w, "warning", "Empty chunk data in SEND packet", <<>>)
        ELSE StoreChunk(w, totalChunks, currentChunk, chunkData, filename, t)

(***************************************************************************)
(* Telemetry decoding (telemetry.js).  A float32 field is logged as the    *)
(* 32-bit word that holds it; the sink's number formatting is not          *)
(* modelled.                                                               *)
(***************************************************************************)
\* str.split(sep) for a one-character separator
RECURSIVE Split(_, _)
Split(s, sep) ==
    LET at == FirstIndex({i \in 0..(Len(s) - 1) : At(s, i) = sep})
    IN  IF at = -1 THEN <<s>> ELSE <<Slice(s, 0, at)>> \o Split(SliceFrom(s, at + 1), sep)

\* One logToTerminal call per element of datas.
RECURSIVE LogAll(_, _, _, _)
LogAll(w, sev, tag, datas) ==
    IF datas = <<>> THEN w ELSE LogAll(Log(w, sev, tag, Head(datas)), sev, tag, Tail(datas))

\* The float32 / int32 fields at offsets 4, 8, ... of a packet.
Words(data, n) == [i \in 1..n |-> GetUint32(data, 4 * i)]

\* new TextDecoder().decode(data.slice(a, b)).replace(/\0/g, '').trim()
TextField(data, a, b) == Trim(RemoveNul(TextDecode(Slice(data, a, b))))

\* InvalidSize that reports nothing.
InvalidSizeSilent(w, name, data) == w

InvalidSize(w, name, data) ==
    Log(w, "warning", "Invalid packet size", name \o <<Len(data)>>)

unpackSensorData(w, identifier, data) ==
    IF Len(data) < 16 THEN InvalidSize(w, identifier, data)
    ELSE Log(w, "response", "sensor", identifier \o Words(data, 3))

unpackBMEData(w, data) ==
    IF Len(data) < 16 THEN InvalidSize(w, <<66, 77, 69>>, data)
    ELSE Log(w, "response", "BME280", Words(data, 3))

\* unpackPollData without the reset of the accumulator after a record.
unpackPollDataKeeping(w, data) ==
    LET payloadLength == GetUint32(data, 4)
        newBuffer     == w.pollBuffer \o Slice(data, 8, 8 + payloadLength)
        sensors       == [i \in 1..16 |-> <<i, GetUint32(newBuffer, 4 * (i - 1))>>]
    IN  IF Len(data) < 8 THEN InvalidSize(w, tagPOLL, data)
        ELSE IF Len(data) < 8 + payloadLength
        THEN Log(w, "warning", "Incomplete POLL packet", <<8 + payloadLength, Len(data)>>)
        ELSE IF Len(newBuffer) >= 64
        THEN [LogAll(Log(w, "response", "Environmental Poll Data:", <<>>),
                     "response", "Sensor", sensors)
              EXCEPT !.pollBuffer = newBuffer]
        ELSE [w EXCEPT !.pollBuffer = newBuffer]

\* unpackPollData that keeps the bytes beyond the 64th for the next record.
unpackPollDataCarrying(w, data) ==
    IF Len(data) < 8 THEN InvalidSize(w, tagPOLL, data)
    ELSE LET payloadLength == GetUint32(data, 4)
             newBuffer     == w.pollBuffer \o Slice(data, 8, 8 + payloadLength)
             sensors       == [i \in 1..16 |-> <<i, GetUint32(newBuffer, 4 * (i - 1))>>]
         IN  IF Len(data) < 8 + payloadLength
             THEN Log(w, "warning", "Incomplete POLL packet", <<8 + payloadLength, Len(data)>>)
             ELSE IF Len(newBuffer) >= 64
             THEN [LogAll(Log(w, "response", "Environmental Poll Data:", <<>>),
                          "response", "Sensor", sensors)
                   EXCEPT !.pollBuffer = SliceFrom(newBuffer, 64)]
             ELSE [w EXCEPT !.pollBuffer = newBuffer]

unpackPollData(w, data) ==
    IF Len(data) < 8 THEN InvalidSize(w, tagPOLL, data)
    ELSE LET payloadLength == GetUint32(data, 4)
             newBuffer     == w.pollBuffer \o Slice(data, 8, 8 + payloadLength)
             sensors       == [i \in 1..16 |-> <<i, GetUint32(newBuffer, 4 * (i - 1))>>]
         IN  IF Len(data) < 8 + payloadLength
             THEN Log(w, "warning", "Incomplete POLL packet", <<8 + payloadLength, Len(data)>>)
             ELSE IF Len(newBuffer) >= 64
             THEN [LogAll(Log(w, "response", "Environmental Poll Data:", <<>>),
                          "response", "Sensor", sensors)
                   EXCEPT !.pollBuffer = <<>>]
             ELSE [w EXCEPT !.pollBuffer = newBuffer]

unpackOBCSingleValue(w, identifier, data) ==
    IF Len(data) < 8 THEN InvalidSize(w, identifier, data)
    ELSE Log(w, "response", "Onboard Computer", identifier \o Words(data, 1))

strDNE == <<68, 78, 69>>

strEND == <<69, 78, 68>>

unpackOBCFileListing(w, data) ==
    IF Len(data) < 234 THEN InvalidSize(w, tagOBCL, data)
    ELSE LET fileData == TextField(data, 4, 234)
             lines    == SelectSeq([i \in DOMAIN Split(fileData, 10) |->
                                        Trim(Split(fileData, 10)[i])],
                                   LAMBDA l : l # <<>>)
         IN  IF fileData # <<>> /\ ~StartsWith(fileData, strDNE)
             THEN LogAll(Log(w, "response", "Onboard Computer File Listing:", <<>>),
                         "response", "file", lines)
             ELSE Log(w, "response", "No files found or directory does not exist", <<>>)

unpackOBCProcesses(w, data) ==
    IF Len(data) < 234 THEN InvalidSize(w, tagOBCP, data)
    ELSE LET processData == TextField(data, 4, 234)
             pushed      == Append(w.obclDataArray, processData)
             processes   == SelectSeq(Split(Flatten(pushed), 44), LAMBDA p : Trim(p) # <<>>)
             shown       == SelectSeq([i \in DOMAIN processes |->
                                           IF Includes(processes[i], strEND) THEN <<>>
                                           ELSE <<i>> \o Trim(processes[i])],
                                      LAMBDA e : e # <<>>)
         IN  IF Includes(processData, strEND) \/ Len(processData) = 0
             THEN [LogAll(Log(w, "response", "OBC Process List:", <<>>),
                          "response", "process", shown)
                   EXCEPT !.obclDataArray = <<>>]
             ELSE [w EXCEPT !.obclDataArray = pushed]

\* The first three values also go to updateSatelliteOrientation, the
\* orientation sink.
unpackADCSData(w, data) ==
    IF Len(data) < 32 THEN InvalidSize(w, tagADCS, data)
    ELSE LogAll(Log(w, "response", "Satellite Orientation (ADCS):", <<>>),
                "response", "Value", [i \in 1..7 |-> <<i, Words(data, 7)[i]>>])

unpackEPSStatus(w, data) ==
    IF Len(data) < 28 THEN InvalidSize(w, <<69, 80, 83>>, data)
    ELSE LogAll(Log(w, "response", "Electrical Power System Status:", <<>>),
                "response", "EPS", [i \in 1..6 |-> <<i, Words(data, 6)[i]>>])

unpackSolarData(w, data) ==
    IF Len(data) < 36 THEN InvalidSize(w, tagSOLR, data)
    ELSE Log(LogAll(Log(w, "response", "Solar Panel Telemetry:", <<>>),
                    "response", "Panel",
                    [i \in 1..4 |-> <<i, Words(data, 8)[2 * i - 1], Words(data, 8)[2 * i]>>]),
             "response", "Total Power", Words(data, 8))

unpackHostname(w, data) ==
    IF Len(data) < 15 THEN InvalidSize(w, tagHOST, data)
    ELSE Log(w, "response", "Satellite Hostname", TextField(data, 4, 15))

unpackRetransmitData(w, data) ==
    LET retxData == TextField(data, 4, Len(data))
    IN  IF retxData # <<>> THEN Log(w, "response", "Retransmitted Data", retxData)
        ELSE Log(w, "info", "Empty retransmit packet received", <<>>)

unpackCommand(w, data) ==
    LET identifier == TextField(data, 0, 4)
    IN  IF Len(data) < 4 THEN w
        ELSE IF identifier \in {tagGYRO, tagACCL, tagMAGN, tagGRAV, tagEULR}
        THEN unpackSensorData(w, identifier, data)
        ELSE IF identifier = tagBMED THEN unpackBMEData(w, data)
        ELSE IF identifier = tagPOLL THEN unpackPollData(w, data)
        ELSE IF identifier \in {tagOBCR, tagOBCD, tagOBCC}
        THEN unpackOBCSingleValue(w, identifier, data)
        ELSE IF identifier = tagOBCL THEN unpackOBCFileListing(w, data)
        ELSE IF identifier = tagOBCP THEN unpackOBCProcesses(w, data)
        ELSE IF identifier = tagADCS THEN unpackADCSData(w, data)
        ELSE IF identifier = tagEPSS THEN unpackEPSStatus(w, data)
        ELSE IF identifier = tagHOST THEN unpackHostname(w, data)
        ELSE IF identifier = tagSOLR THEN unpackSolarData(w, data)
        ELSE IF identifier = tagRETX THEN unpackRetransmitData(w, data)
        ELSE w

(***************************************************************************)
(* Text lines (part_000)                                                   *)
(***************************************************************************)
strRADIO_CONFIG == <<82, 65, 68, 73, 79, 95, 67, 79, 78, 70, 73, 71, 58>>

strEND_CONFIG == <<69, 78, 68, 95, 67, 79, 78, 70, 73, 71>>

strUplink == <<85, 112, 108, 105, 110, 107, 58>>

strDownlink == <<68, 111, 119, 110, 108, 105, 110, 107, 58>>

\* The substrings that make a line a known response.
knownResponses ==
    {strUplink, strDownlink,
     <<82, 101, 99, 101, 105, 118, 101, 100, 32, 99, 111, 109, 109, 97, 110, 100, 58>>,
     <<71, 114, 111, 117, 110, 100, 32, 83, 116, 97, 116, 105, 111, 110, 32, 82, 101, 97, 100, 121>>,
     <<114, 97, 100, 105, 111, 32, 99, 111, 110, 102, 105, 103, 117, 114, 101, 100>>,
     <<69, 114, 114, 111, 114, 58>>,
     <<73, 109, 97, 103, 101>>,
     <<112, 97, 99, 107, 101, 116>>}

\* \w
IsWordChar(c) == IsUpper(c) \/ IsLower(c) \/ IsDigit(c) \/ c = 95

\* The end of the longest run from position i of characters outside stops,
\* the positions of the characters that end it.
RunEnd(s, i, stops) ==
    IF FirstIndex(stops) = -1 THEN Max(i, Len(s)) ELSE FirstIndex(stops)

\* line.match(/<prefix> (\w+) @ ([\d.]+) MHz, (?:Channel|Node) (\d+)/): no
\* class contains the character that follows it, so each run is maximal.
MatchesRadioLine(line, prefix) ==
    \E p \in 0..Len(line) :
        LET a == p + Len(prefix) + 1
            b == RunEnd(line, a, {j \in a..(Len(line) - 1) : ~IsWordChar(At(line, j))})
            c == b + 3
            d == RunEnd(line, c, {j \in c..(Len(line) - 1) :
                                      ~(IsDigit(At(line, j)) \/ At(line, j) = 46)})
            e == d + 6
            f == IF Slice(line, e, e + 7) = <<67, 104, 97, 110, 110, 101, 108>> THEN e + 7
                 ELSE IF Slice(line, e, e + 4) = <<78, 111, 100, 101>> THEN e + 4
                 ELSE -1
        IN  /\ Slice(line, p, a) = prefix \o <<32>>
            /\ b > a
            /\ Slice(line, b, c) = <<32, 64, 32>>
            /\ d > c
            /\ Slice(line, d, e) = <<32, 77, 72, 122, 44, 32>>
            /\ f # -1
            /\ Slice(line, f, f + 1) = <<32>>
            /\ f + 1 < Len(line)
            /\ IsDigit(At(line, f + 1))

\* parseRadioConfigFromBuffer: the form fields it fills are the UI's; what
\* reaches the sink is one line per configuration line it could parse.
RECURSIVE parseRadioConfigFromBuffer(_, _)
parseRadioConfigFromBuffer(w, buffer) ==
    IF buffer = <<>> THEN w
    ELSE LET line == Head(buffer)
             w1   == IF StartsWith(line, strUplink)
                     THEN IF MatchesRadioLine(line, strUplink)
                          THEN Log(w, "info", "UI updated with uplink configuration", <<>>)
                          ELSE w
                     ELSE IF StartsWith(line, strDownlink) /\ MatchesRadioLine(line, strDownlink)
                     THEN Log(w, "info", "UI updated with downlink configuration", <<>>)
                     ELSE w
         IN  parseRadioConfigFromBuffer(w1, Tail(buffer))

processTextLine(w, line) ==
    IF line = strRADIO_CONFIG
    THEN Log([w EXCEPT !.collectingConfig = TRUE, !.configBuffer = <<line>>],
             "response", "line", line)
    ELSE IF w.collectingConfig
    THEN IF line = strEND_CONFIG
         THEN [parseRadioConfigFromBuffer(w, w.configBuffer)
               EXCEPT !.collectingConfig = FALSE, !.configBuffer = <<>>]
         ELSE Log([w EXCEPT !.configBuffer = Append(@, line)], "response", "line", line)
    ELSE IF \E known \in knownResponses : Includes(line, known)
    THEN Log(w, "response", "line", line)
    ELSE Log(w, "info", "line", line)

(***************************************************************************)
(* The stream framer (part_000)                                            *)
(***************************************************************************)
\* getPacketSize(identifier), which reads dataBuffer
getPacketSize(identifier, buffer) ==
    IF identifier = tagPOLL
    THEN IF Len(buffer) >= 8 THEN 8 + GetUint32(buffer, 4) ELSE -1
    ELSE IF identifier = tagRETX THEN Min(Len(buffer), 256)
    ELSE IF identifier \in {tagGYRO, tagACCL, tagMAGN, tagGRAV, tagEULR, tagBMED} THEN 16
    ELSE IF identifier \in {tagOBCR, tagOBCD, tagOBCC} THEN 8
    ELSE IF identifier \in {tagOBCL, tagOBCP} THEN 234
    ELSE IF identifier = tagADCS THEN 32
    ELSE IF identifier = tagEPSS THEN 28
    ELSE IF identifier = tagHOST THEN 15
    ELSE IF identifier = tagSOLR THEN 36
    ELSE 0

\* dataBuffer with its leading newline and carriage-return bytes removed:
\* the two "skip any additional newlines" loops.
SkipNewlines(buffer) ==
    LET first == FirstIndex({i \in 0..(Len(buffer) - 1) : ~IsNewline(At(buffer, i))})
    IN  IF first = -1 THEN <<>> ELSE SliceFrom(buffer, first)

\* The image branch's packetEnd: the scan of the first 1024 bytes, then the
\* fallbacks of a buffer under 1024 bytes.
PacketEnd(buffer) ==
    LET scan == FirstIndex({i \in 4..(Min(Len(buffer), 1024) - 1) :
                               \/ ~IsPacketChar(At(buffer, i))
                               \/ /\ i + 4 <= Len(buffer)
                                  /\ TextDecode(Slice(buffer, i, i + 4)) \in nextIdentifiers})
        newline == FirstIndex({i \in 4..(Len(buffer) - 1) : IsNewline(At(buffer, i))})
    IN  IF scan = -1 /\ Len(buffer) < 1024
        THEN IF newline # -1 THEN newline ELSE Len(buffer)
        ELSE scan

\* The image branch once packetEnd > 4: hand the packet over, drop it and
\* what follows up to the next newline, and the newlines after that.
TakeImagePacket(w, packetEnd, filename, t) ==
    LET buffer  == w.dataBuffer
        packet  == Slice(buffer, 0, packetEnd)
        w1      == ProcessImagePacket(Handed(w, "image", packet), packet, filename, t)
        newline == FirstIndex({i \in packetEnd..(Len(buffer) - 1) : IsNewline(At(buffer, i))})
        skipTo  == IF newline # -1 THEN newline + 1 ELSE packetEnd
    IN  [w1 EXCEPT !.dataBuffer = SkipNewlines(SliceFrom(buffer, skipTo))]

\* The binary branch taking one byte less than the frame.
TakeBinaryPacketShort(w, packetSize) ==
    LET packet == Slice(w.dataBuffer, 0, packetSize - 1)
    IN  [unpackCommand(Handed(w, "telemetry", packet), packet)
         EXCEPT !.dataBuffer = SliceFrom(w.dataBuffer, packetSize - 1)]

\* The binary branch once the packet is complete.
TakeBinaryPacket(w, packetSize) ==
    LET packet == Slice(w.dataBuffer, 0, packetSize)
    IN  [unpackCommand(Handed(w, "telemetry", packet), packet)
         EXCEPT !.dataBuffer = SliceFrom(w.dataBuffer, packetSize)]

\* The text branch without trim() and without the skip of further newlines.
TakeTextLineRaw(w) ==
    LET buffer       == w.dataBuffer
        newlineIndex == FirstIndex({i \in 0..(Len(buffer) - 1) : IsNewline(At(buffer, i))})
        line         == TextDecode(Slice(buffer, 0, newlineIndex))
        w1           == IF line # <<>> THEN processTextLine(Handed(w, "text", line), line) ELSE w
    IN  IF newlineIndex # -1
        THEN [w     |-> [w1 EXCEPT !.dataBuffer = SliceFrom(buffer, newlineIndex + 1)],
              again |-> TRUE]
        ELSE IF Len(buffer) > 1024
        THEN [w |-> [w EXCEPT !.dataBuffer = <<>>], again |-> FALSE]
        ELSE [w |-> w, again |-> FALSE]

\* TakeTextLine that overwrites the terminator with a blank where the code
\* slices the line and its terminator off.
TakeTextLineBlanking(w) ==
    LET buffer       == w.dataBuffer
        newlineIndex == FirstIndex({i \in 0..(Len(buffer) - 1) : IsNewline(At(buffer, i))})
    IN  IF newlineIndex # -1
        THEN [w     |-> [w EXCEPT !.dataBuffer =
                                     [i \in 1..Len(buffer) |->
                                         IF i = newlineIndex + 1 THEN 32 ELSE buffer[i]]],
              again |-> TRUE]
        ELSE [w |-> w, again |-> FALSE]

\* The text branch: [w, again].
TakeTextLine(w) ==
    LET buffer       == w.dataBuffer
        newlineIndex == FirstIndex({i \in 0..(Len(buffer) - 1) : IsNewline(At(buffer, i))})
        line         == Trim(TextDecode(Slice(buffer, 0, newlineIndex)))
        w1           == IF line # <<>> THEN processTextLine(Handed(w, "text", line), line) ELSE w
    IN  IF newlineIndex # -1
        THEN [w     |-> [w1 EXCEPT !.dataBuffer =
                                      SkipNewlines(SliceFrom(buffer, newlineIndex + 1))],
              again |-> TRUE]
        ELSE IF Len(buffer) > 1024
        THEN [w |-> [w EXCEPT !.dataBuffer = <<>>], again |-> FALSE]
        ELSE [w |-> w, again |-> FALSE]

\* One iteration of the while loop: [w, again], again = FALSE for a break.
ClassifyStep(w, filename, t) ==
    LET buffer     == w.dataBuffer
        identifier == TextField(buffer, 0, 4)
        isImage    == Len(buffer) >= 5 /\ identifier \in {tagSEND, tagRETX}
        packetEnd  == PacketEnd(buffer)
        isBinary   == Len(buffer) >= 4 /\ identifier \in binaryIdentifiers
        packetSize == getPacketSize(identifier, buffer)
    IN  IF isImage /\ packetEnd > 4
        THEN [w |-> TakeImagePacket(w, packetEnd, filename, t), again |-> TRUE]
        ELSE IF isImage /\ Len(buffer) < 1024
        THEN [w |-> w, again |-> FALSE]
        ELSE IF isBinary /\ packetSize > 0 /\ Len(buffer) >= packetSize
        THEN [w |-> TakeBinaryPacket(w, packetSize), again |-> TRUE]
        ELSE IF isBinary /\ packetSize > 0
        THEN [w |-> w, again |-> FALSE]
        ELSE TakeTextLine(w)

RECURSIVE ClassifyLoop(_, _, _)
ClassifyLoop(w, filename, t) ==
    IF Len(w.dataBuffer) = 0 THEN w
    ELSE LET step == ClassifyStep(w, filename, t)
         IN  IF step.again THEN ClassifyLoop(step.w, filename, t) ELSE step.w

\* processReceivedData(data)
processReceivedData(w, data, filename, t) ==
    ClassifyLoop([w EXCEPT !.dataBuffer = @ \o data], filename, t)

(***************************************************************************)
(* Retransmission requests (part_001)                                      *)
(***************************************************************************)
IMAGE_TIMEOUT == 30000

MAX_RETRANSMIT_ATTEMPTS == 3

MAX_COMMAND_SIZE == 60

strRETRANSMIT == <<82, 69, 84, 82, 65, 78, 83, 77, 73, 84>>

\* RetransmitCommand with the first index only.
RetransmitCommandFirst(filename, chunk) ==
    strRETRANSMIT \o <<32>> \o filename \o <<32>> \o JoinSpace(SubSeq(chunk, 1, 1))

\* `RETRANSMIT ${filename} ${chunk.join(' ')}`
RetransmitCommand(filename, chunk) ==
    strRETRANSMIT \o <<32>> \o filename \o <<32>> \o JoinSpace(chunk)

\* checkMissingPackets(imageId): [w, missing]
checkMissingPackets(w, imageId) ==
    IF ~MapHas(w.imageReceptions, imageId)
    THEN [w |-> Log(w, "warning", "No image reception found", imageId), missing |-> <<>>]
    ELSE LET imageInfo == MapGet(w.imageReceptions, imageId)
             absent    == {i \in 0..(imageInfo.totalChunks - 1) : i \notin imageInfo.receivedChunks}
             RECURSIVE Ascending(_, _)
             Ascending(i, n) ==
                 IF i >= n THEN <<>>
                 ELSE (IF i \in absent THEN <<i>> ELSE <<>>) \o Ascending(i + 1, n)
             missing   == Ascending(0, imageInfo.totalChunks)
         IN  [w       |-> IF Len(missing) > 0
                          THEN Log(w, "warning", "Missing packets",
                                   imageId \o <<Len(missing)>> \o Slice(missing, 0, 10))
                          ELSE w,
              missing |-> missing]

\* Math.max(1, Math.floor(bytesAvailable / avgBytesPerPacket))
MaxPacketsPerCommand(filename) ==
    LET baseCommand    == strRETRANSMIT \o <<32>> \o filename \o <<32>>
        bytesAvailable == MAX_COMMAND_SIZE - Len(baseCommand) - 1
    IN  Max(1, FloorDiv(bytesAvailable, 5))

\* No call in flight.
rtIdle ==
    [pc |-> "idle", call |-> 0, imageId |-> <<>>, known |-> FALSE, auto |-> FALSE,
     missing |-> <<>>, filename |-> <<>>, perCommand |-> 0, i |-> 0, safe |-> FALSE,
     attempt |-> 0, wake |-> 0]

\* One writer.write(bytes), with the call that made it (call 0: sendCommand).
Write(out, r, bytes) ==
    Append(out, [call |-> r.call, imageId |-> r.imageId, known |-> r.known,
                 attempt |-> r.attempt, data |-> bytes])

\* RetransmitLoop without the checks of the command's length.
RECURSIVE RetransmitLoopUnchecked(_, _, _)
RetransmitLoopUnchecked(r, lg, out) ==
    LET chunk   == Slice(r.missing, r.i, Min(r.i + r.perCommand, Len(r.missing)))
        command == strRETRANSMIT \o <<32>> \o r.filename \o <<32>> \o JoinSpace(chunk)
    IN  IF r.i >= Len(r.missing)
        THEN [rt      |-> [r EXCEPT !.pc = "done"],
              log     |-> Append(lg, [sev |-> "info", tag |-> "Retransmission request complete",
                                      data |-> <<r.attempt>>]),
              written |-> out]
        ELSE [rt      |-> [r EXCEPT !.pc = "awaitWrite", !.safe = FALSE],
              log     |-> Append(lg, [sev |-> "command", tag |-> "Retransmit",
                                      data |-> <<Len(chunk), Len(command)>>]),
              written |-> Append(out, [call |-> r.call, imageId |-> r.imageId, known |-> r.known,
                                       attempt |-> r.attempt, data |-> command \o <<10>>])]

\* RetransmitLoop without 'i -= maxPacketsPerCommand; i += safePacketCount':
\* after a halved command the loop goes on behind the whole batch.
RECURSIVE RetransmitLoopDropping(_, _, _)
RetransmitLoopDropping(r, lg, out) ==
    LET chunk       == Slice(r.missing, r.i, Min(r.i + r.perCommand, Len(r.missing)))
        command     == RetransmitCommand(r.filename, chunk)
        safeCount   == Max(1, FloorDiv(Len(chunk), 2))
        safeCommand == RetransmitCommand(r.filename, Slice(chunk, 0, safeCount))
        warned      == Append(lg, [sev |-> "warning", tag |-> "Command too long",
                                   data |-> <<Len(command), safeCount>>])
    IN  IF r.i >= Len(r.missing)
        THEN [rt      |-> [r EXCEPT !.pc = "done"],
              log     |-> Append(lg, [sev |-> "info", tag |-> "Retransmission request complete",
                                      data |-> <<r.attempt>>]),
              written |-> out]
        ELSE IF Len(command) > MAX_COMMAND_SIZE - 1
        THEN IF Len(safeCommand) > MAX_COMMAND_SIZE - 1
             THEN RetransmitLoopDropping([r EXCEPT !.i = @ + r.perCommand],
                                         Append(warned, [sev |-> "error",
                                                         tag |-> "Cannot fit retransmit command",
                                                         data |-> <<>>]),
                                         out)
             ELSE [rt      |-> [r EXCEPT !.pc = "awaitWrite", !.safe = TRUE],
                   log     |-> warned,
                   written |-> Write(out, r, TextEncode(safeCommand \o <<10>>))]
        ELSE [rt      |-> [r EXCEPT !.pc = "awaitWrite", !.safe = FALSE],
              log     |-> Append(lg, [sev |-> "command", tag |-> "Retransmit",
                                      data |-> <<Len(chunk), Len(command)>>]),
              written |-> Write(out, r, TextEncode(command \o <<10>>))]

\* The for loop of requestRetransmission from position r.i up to its next
\* await (a write was issued: pc = "awaitWrite") or its end (pc = "done"):
\* [rt, log, written].  An iteration whose halved command still does not
\* fit reports it and goes on to the next batch without a suspension.
RECURSIVE RetransmitLoop(_, _, _)
RetransmitLoop(r, lg, out) ==
    LET chunk       == Slice(r.missing, r.i, Min(r.i + r.perCommand, Len(r.missing)))
        command     == RetransmitCommand(r.filename, chunk)
        safeCount   == Max(1, FloorDiv(Len(chunk), 2))
        safeCommand == RetransmitCommand(r.filename, Slice(chunk, 0, safeCount))
        warned      == Append(lg, [sev |-> "warning", tag |-> "Command too long",
                                   data |-> <<Len(command), safeCount>>])
    IN  IF r.i >= Len(r.missing)
        THEN [rt      |-> [r EXCEPT !.pc = "done"],
              log     |-> Append(lg, [sev |-> "info", tag |-> "Retransmission request complete",
                                      data |-> <<r.attempt>>]),
              written |-> out]
        ELSE IF Len(command) > MAX_COMMAND_SIZE - 1
        THEN IF Len(safeCommand) > MAX_COMMAND_SIZE - 1
             THEN RetransmitLoop([r EXCEPT !.i = @ + r.perCommand],
                                 Append(warned, [sev |-> "error",
                                                 tag |-> "Cannot fit retransmit command",
                                                 data |-> <<>>]),
                                 out)
             ELSE [rt      |-> [r EXCEPT !.pc = "awaitWrite", !.safe = TRUE,
                                         !.i = @ - r.perCommand + safeCount],
                   log     |-> warned,
                   written |-> Write(out, r, TextEncode(safeCommand \o <<10>>))]
        ELSE [rt      |-> [r EXCEPT !.pc = "awaitWrite", !.safe = FALSE],
              log     |-> Append(lg, [sev |-> "command", tag |-> "Retransmit",
                                      data |-> <<Len(chunk), Len(command)>>]),
              written |-> Write(out, r, TextEncode(command \o <<10>>))]

\* `image_${imageId.replace('img_', '')}.jpg.gz.chunked`
FallbackFilename(imageId) ==
    <<105, 109, 97, 103, 101, 95>> \o ToDecimal(imageId[1])
        \o (IF Len(imageId) > 1 THEN <<95>> \o ToDecimal(imageId[2]) ELSE <<>>)
        \o <<46, 106, 112, 103, 46, 103, 122>> \o chunkedSuffix

(***************************************************************************)
(* The program's state and its operations                                  *)
(***************************************************************************)
World ==
    [dataBuffer        |-> dataBuffer,
     configBuffer      |-> configBuffer,
     collectingConfig  |-> collectingConfig,
     pollBuffer        |-> pollBuffer,
     obclDataArray     |-> obclDataArray,
     imageReceptions   |-> imageReceptions,
     imagePacketBuffer |-> imagePacketBuffer,
     log               |-> log,
     pending           |-> pending,
     frames            |-> frames,
     completions       |-> completions]

Commit(w) ==
    /\ dataBuffer' = w.dataBuffer
    /\ configBuffer' = w.configBuffer
    /\ collectingConfig' = w.collectingConfig
    /\ pollBuffer' = w.pollBuffer
    /\ obclDataArray' = w.obclDataArray
    /\ imageReceptions' = w.imageReceptions
    /\ imagePacketBuffer' = w.imagePacketBuffer
    /\ log' = w.log
    /\ pending' = w.pending
    /\ frames' = w.frames
    /\ completions' = w.completions

\* The handler calls made so far, and the response timers that
\* queryRadioConfig has armed and that have not fired.
noCalls ==
    [deliveries |-> 0, commands |-> 0, requests |-> 0, clears |-> 0,
     connects |-> 0, disconnects |-> 0, timers |-> 0]

\* The state once the scripts are loaded.
Loaded ==
    /\ dataBuffer = <<>>
    /\ configBuffer = <<>>
    /\ collectingConfig = FALSE
    /\ pollBuffer = <<>>
    /\ obclDataArray = <<>>
    /\ imageReceptions = <<>>
    /\ imagePacketBuffer = <<>>
    /\ currentImageFilename = Null
    /\ writer = "null"
    /\ readLoop = "null"
    /\ now = 0
    /\ log = <<>>
    /\ written = <<>>
    /\ pending = <<>>
    /\ rt = rtIdle
    /\ frames = <<>>
    /\ completions = <<>>
    /\ pos = 0
    /\ calls = noCalls

\* Connect that starts the session with an empty dataBuffer.
ConnectFresh ==
    /\ writer = "null"
    /\ writer' = "open"
    /\ readLoop' = "running"
    /\ dataBuffer' = <<>>
    /\ log' = log \o <<[sev |-> "info", tag |-> "Requesting serial port...", data |-> <<>>],
                       [sev |-> "response", tag |-> "Connected to Ground Station Port", data |-> <<>>],
                       [sev |-> "response", tag |-> "Ground Station connected successfully!", data |-> <<>>]>>
    /\ calls' = [calls EXCEPT !.connects = @ + 1]
    /\ UNCHANGED <<configBuffer, collectingConfig, pollBuffer, obclDataArray,
                   imageReceptions, imagePacketBuffer, currentImageFilename, now, written,
                   pending, rt, frames, completions, stream, pos>>

\* connect(), the port granted and opened: the writer is taken and the read
\* loop started.
Connect ==
    /\ writer = "null"
    /\ writer' = "open"
    /\ readLoop' = "running"
    /\ log' = log \o <<[sev |-> "info", tag |-> "Requesting serial port...", data |-> <<>>],
                       [sev |-> "response", tag |-> "Connected to Ground Station Port", data |-> <<>>],
                       [sev |-> "response", tag |-> "Ground Station connected successfully!", data |-> <<>>]>>
    /\ calls' = [calls EXCEPT !.connects = @ + 1]
    /\ UNCHANGED <<dataBuffer, configBuffer, collectingConfig, pollBuffer, obclDataArray,
                   imageReceptions, imagePacketBuffer, currentImageFilename, now, written,
                   pending, rt, frames, completions, stream, pos>>

\* One turn of the read loop: reader.read() gave data, processReceivedData
\* runs to its end.
Receive(data) ==
    /\ readLoop = "running"
    /\ Len(data) > 0
    /\ Commit(processReceivedData(World, data, currentImageFilename, now))
    /\ calls' = [calls EXCEPT !.deliveries = @ + 1]
    /\ UNCHANGED <<currentImageFilename, writer, readLoop, now, written, rt, stream, pos>>

\* Date.now() moves on by d ms.
Tick(d) ==
    /\ now' = now + d
    /\ UNCHANGED <<dataBuffer, configBuffer, collectingConfig, pollBuffer, obclDataArray,
                   imageReceptions, imagePacketBuffer, currentImageFilename, writer, readLoop,
                   log, written, pending, rt, frames, completions, stream, pos, calls>>

\* DecompressResolve without the two deletes.
DecompressResolveKeeping(n) ==
    /\ n \in 1..Len(pending)
    /\ GzipVerdict(pending[n].bytes) \in {"resolve", "either"}
    /\ pending' = SubSeq(pending, 1, n - 1) \o SubSeq(pending, n + 1, Len(pending))
    /\ log' = log \o <<[sev |-> "response", tag |-> "Image completed!",
                        data |-> pending[n].imageId \o <<now - pending[n].startTime,
                                                         Len(pending[n].bytes)>>],
                       [sev |-> "info", tag |-> "Image reception cleanup completed",
                        data |-> pending[n].imageId]>>
    /\ UNCHANGED <<dataBuffer, configBuffer, collectingConfig, pollBuffer, obclDataArray,
                   imageReceptions, imagePacketBuffer, currentImageFilename, writer, readLoop,
                   now, written, rt, frames, completions, stream, pos, calls>>

\* The continuation of completeImageReception when decompression succeeds:
\* the download links are offered and the reception is removed under its id.
DecompressResolve(n) ==
    /\ n \in 1..Len(pending)
    /\ GzipVerdict(pending[n].bytes) \in {"resolve", "either"}
    /\ pending' = SubSeq(pending, 1, n - 1) \o SubSeq(pending, n + 1, Len(pending))
    /\ imageReceptions' = MapDelete(imageReceptions, pending[n].imageId)
    /\ imagePacketBuffer' = MapDelete(imagePacketBuffer, pending[n].imageId)
    /\ log' = log \o <<[sev |-> "response", tag |-> "Image completed!",
                        data |-> pending[n].imageId \o <<now - pending[n].startTime,
                                                         Len(pending[n].bytes)>>],
                       [sev |-> "info", tag |-> "Image reception cleanup completed",
                        data |-> pending[n].imageId]>>
    /\ UNCHANGED <<dataBuffer, configBuffer, collectingConfig, pollBuffer, obclDataArray,
                   currentImageFilename, writer, readLoop, now, written, rt, frames,
                   completions, stream, pos, calls>>

\* DecompressReject that removes the reception as a success does.
DecompressRejectRemoving(n) ==
    /\ n \in 1..Len(pending)
    /\ GzipVerdict(pending[n].bytes) \in {"reject", "either"}
    /\ pending' = SubSeq(pending, 1, n - 1) \o SubSeq(pending, n + 1, Len(pending))
    /\ imageReceptions' = MapDelete(imageReceptions, pending[n].imageId)
    /\ imagePacketBuffer' = MapDelete(imagePacketBuffer, pending[n].imageId)
    /\ log' = Append(log, [sev |-> "error", tag |-> "Unhandled Promise Rejection",
                           data |-> pending[n].imageId])
    /\ UNCHANGED <<dataBuffer, configBuffer, collectingConfig, pollBuffer, obclDataArray,
                   currentImageFilename, writer, readLoop, now, written, rt, frames,
                   completions, stream, pos, calls>>

\* Decompression fails: nothing handles the rejection but the window's
\* unhandledrejection listener (main.js), which reports it.
DecompressReject(n) ==
    /\ n \in 1..Len(pending)
    /\ GzipVerdict(pending[n].bytes) \in {"reject", "either"}
    /\ pending' = SubSeq(pending, 1, n - 1) \o SubSeq(pending, n + 1, Len(pending))
    /\ log' = Append(log, [sev |-> "error", tag |-> "Unhandled Promise Rejection",
                           data |-> pending[n].imageId])
    /\ UNCHANGED <<dataBuffer, configBuffer, collectingConfig, pollBuffer, obclDataArray,
                   imageReceptions, imagePacketBuffer, currentImageFilename, writer, readLoop,
                   now, written, rt, frames, completions, stream, pos, calls>>

\* clearImageBuffers without 'imagePacketBuffer.clear()'.
clearImageReceptionsOnly ==
    /\ imageReceptions' = <<>>
    /\ log' = Append(log, [sev |-> "info", tag |-> "Cleared image reception buffers",
                           data |-> <<Len(imageReceptions)>>])
    /\ calls' = [calls EXCEPT !.clears = @ + 1]
    /\ UNCHANGED <<dataBuffer, configBuffer, collectingConfig, pollBuffer, obclDataArray,
                   imagePacketBuffer, currentImageFilename, writer, readLoop, now, written,
                   pending, rt, frames, completions, stream, pos>>

\* clearImageBuffers()
clearImageBuffers ==
    /\ imageReceptions' = <<>>
    /\ imagePacketBuffer' = <<>>
    /\ log' = Append(log, [sev |-> "info", tag |-> "Cleared image reception buffers",
                           data |-> <<Len(imageReceptions)>>])
    /\ calls' = [calls EXCEPT !.clears = @ + 1]
    /\ UNCHANGED <<dataBuffer, configBuffer, collectingConfig, pollBuffer, obclDataArray,
                   currentImageFilename, writer, readLoop, now, written, pending, rt, frames,
                   completions, stream, pos>>

strSEND_IMAGE == <<83, 69, 78, 68, 95, 73, 77, 65, 71, 69>>

\* setCurrentImageFilename keeping the default suffix of a reception's name.
setCurrentImageFilenameOther(lg, filename) ==
    [filename |-> filename \o <<46, 103, 122>>,
     log      |-> Append(lg, [sev |-> "info", tag |-> "Expecting image", data |-> filename])]

\* setCurrentImageFilename(filename): [currentImageFilename, log]
setCurrentImageFilename(lg, filename) ==
    [filename |-> filename \o chunkedSuffix,
     log      |-> Append(lg, [sev |-> "info", tag |-> "Expecting image", data |-> filename])]

\* sendCommand(command) for a non-empty command, up to its write.
sendCommand(cmd) ==
    LET parts    == SplitSpace(cmd)
        sending  == Append(log, [sev |-> "command", tag |-> "Sending command", data |-> cmd])
        register == StartsWith(ToUpperCase(cmd), strSEND_IMAGE) /\ Len(parts) >= 2
        set      == setCurrentImageFilename(sending, parts[2])
    IN  /\ writer # "null"
        /\ Len(cmd) > 0
        /\ currentImageFilename' = IF register THEN set.filename ELSE currentImageFilename
        /\ log' = IF register THEN set.log ELSE sending
        /\ written' = Write(written, rtIdle, TextEncode(cmd \o <<10>>))
        /\ calls' = [calls EXCEPT !.commands = @ + 1]
        /\ UNCHANGED <<dataBuffer, configBuffer, collectingConfig, pollBuffer, obclDataArray,
                       imageReceptions, imagePacketBuffer, writer, readLoop, now, pending, rt,
                       frames, completions, stream, pos>>

\* The ceiling test one call late.
CeilingReachedLate(attempts) == attempts > MAX_RETRANSMIT_ATTEMPTS + 1

\* imageInfo.retransmitAttempts > MAX_RETRANSMIT_ATTEMPTS
CeilingReached(attempts) == attempts > MAX_RETRANSMIT_ATTEMPTS

\* requestRetransmission(imageId, missingPackets) from its call to its first
\* await or its return; missingPackets = Null asks for auto-detection.
requestRetransmission(imageId, missingPackets) ==
    LET call      == calls.requests + 1
        checked   == IF missingPackets = Null THEN checkMissingPackets(World, imageId)
                     ELSE [w |-> World, missing |-> missingPackets]
        missing   == checked.missing
        known     == MapHas(imageReceptions, imageId)
        imageInfo == MapGet(imageReceptions, imageId)
        attempt   == IF known THEN imageInfo.retransmitAttempts + 1 ELSE 0
        counted   == IF known
                     THEN MapSet(imageReceptions, imageId,
                                 [imageInfo EXCEPT !.retransmitAttempts = attempt])
                     ELSE imageReceptions
        filename  == IF known /\ imageInfo.filename # <<>> THEN imageInfo.filename
                     ELSE FallbackFilename(imageId)
        start     == [rtIdle EXCEPT !.call = call, !.imageId = imageId, !.known = known,
                                    !.auto = (missingPackets = Null),
                                    !.missing = missing, !.filename = filename,
                                    !.perCommand = MaxPacketsPerCommand(filename),
                                    !.attempt = IF known THEN attempt ELSE 1]
        run       == RetransmitLoop(start,
                         Append(checked.w.log,
                                [sev |-> "info", tag |-> "Requesting packets in batches",
                                 data |-> <<Len(missing), start.perCommand>>]),
                         written)
        ended(sev, tag) ==
            /\ rt' = [start EXCEPT !.pc = "returned"]
            /\ log' = Append(checked.w.log, [sev |-> sev, tag |-> tag, data |-> imageId])
            /\ written' = written
    IN  /\ rt.pc \in {"idle", "done", "returned", "failed"}
        /\ calls' = [calls EXCEPT !.requests = call]
        /\ IF writer = "null"
           THEN /\ rt' = [rtIdle EXCEPT !.pc = "returned", !.call = call, !.imageId = imageId]
                /\ log' = Append(log, [sev |-> "error", tag |-> "Not connected to satellite",
                                       data |-> <<>>])
                /\ UNCHANGED <<written, imageReceptions>>
           ELSE IF Len(missing) = 0
           THEN ended("info", "No missing packets") /\ UNCHANGED imageReceptions
           ELSE IF known /\ CeilingReached(attempt)
           THEN ended("warning", "Maximum retransmit attempts reached")
                /\ imageReceptions' = counted
           ELSE /\ rt' = run.rt
                /\ log' = run.log
                /\ written' = run.written
                /\ imageReceptions' = counted
        /\ UNCHANGED <<dataBuffer, configBuffer, collectingConfig, pollBuffer, obclDataArray,
                       imagePacketBuffer, currentImageFilename, writer, readLoop, now, pending,
                       frames, completions, stream, pos>>

\* RetransmitWritten without 'await new Promise(resolve => setTimeout(resolve,
\* 2000))': the loop goes on as soon as the write has resolved.
RetransmitWrittenAtOnce ==
    LET next == RetransmitLoop([rt EXCEPT !.i = @ + rt.perCommand], log, written)
    IN  /\ rt.pc = "awaitWrite"
        /\ rt' = next.rt
        /\ log' = next.log
        /\ written' = next.written
        /\ UNCHANGED <<dataBuffer, configBuffer, collectingConfig, pollBuffer, obclDataArray,
                       imageReceptions, imagePacketBuffer, currentImageFilename, writer,
                       readLoop, now, pending, frames, completions, stream, pos, calls>>

\* The write of the call in flight has completed.  After a halved command
\* the call always sleeps; after a whole one it sleeps unless that was the
\* last batch, and then runs on to its end.
RetransmitWritten ==
    LET isLastChunk == rt.i + rt.perCommand >= Len(rt.missing)
        next        == RetransmitLoop([rt EXCEPT !.i = @ + rt.perCommand], log, written)
    IN  /\ rt.pc = "awaitWrite"
        /\ IF rt.safe \/ ~isLastChunk
           THEN /\ rt' = [rt EXCEPT !.pc = "awaitDelay", !.wake = now + 2000]
                /\ UNCHANGED <<log, written>>
           ELSE /\ rt' = next.rt
                /\ log' = next.log
                /\ written' = next.written
        /\ UNCHANGED <<dataBuffer, configBuffer, collectingConfig, pollBuffer, obclDataArray,
                       imageReceptions, imagePacketBuffer, currentImageFilename, writer,
                       readLoop, now, pending, frames, completions, stream, pos, calls>>

\* RetransmitWoken that goes on writing when the writer is gone.
RetransmitWokenWriting ==
    LET next == RetransmitLoop([rt EXCEPT !.i = @ + rt.perCommand], log, written)
    IN  /\ rt.pc = "awaitDelay"
        /\ now >= rt.wake
        /\ rt' = next.rt
        /\ log' = next.log
        /\ written' = next.written
        /\ UNCHANGED <<dataBuffer, configBuffer, collectingConfig, pollBuffer, obclDataArray,
                       imageReceptions, imagePacketBuffer, currentImageFilename, writer,
                       readLoop, now, pending, frames, completions, stream, pos, calls>>

\* The 2 s timer of the call in flight has fired: the loop goes on with its
\* next batch, and a writer that is gone by then makes writer.write throw
\* into the call's catch.
RetransmitWoken ==
    LET next == RetransmitLoop([rt EXCEPT !.i = @ + rt.perCommand], log, written)
    IN  /\ rt.pc = "awaitDelay"
        /\ now >= rt.wake
        /\ IF writer = "null" /\ next.rt.pc = "awaitWrite"
           THEN /\ rt' = [rt EXCEPT !.pc = "failed"]
                /\ log' = Append(next.log,
                                 [sev |-> "error", tag |-> "Retransmission request error",
                                  data |-> <<>>])
                /\ UNCHANGED written
           ELSE /\ rt' = next.rt
                /\ log' = next.log
                /\ written' = next.written
        /\ UNCHANGED <<dataBuffer, configBuffer, collectingConfig, pollBuffer, obclDataArray,
                       imageReceptions, imagePacketBuffer, currentImageFilename, writer,
                       readLoop, now, pending, frames, completions, stream, pos, calls>>

\* disconnect that does not wait for the read loop.
disconnectAtOnce ==
    /\ readLoop # "cancelled"
    /\ readLoop' = IF readLoop = "running" THEN "cancelled" ELSE readLoop
    /\ writer' = "null"
    /\ log' = Append(log, [sev |-> "info", tag |-> "Disconnected from Ground Station",
                           data |-> <<>>])
    /\ calls' = [calls EXCEPT !.disconnects = @ + 1]
    /\ UNCHANGED <<dataBuffer, configBuffer, collectingConfig, pollBuffer, obclDataArray,
                   imageReceptions, imagePacketBuffer, currentImageFilename, now, written,
                   pending, rt, frames, completions, stream, pos>>

\* disconnect() up to its await of the read loop: a running loop has its
\* reader cancelled; with no loop running the call goes through to its end,
\* where it closes and drops the writer if there is one.
disconnect ==
    /\ readLoop # "cancelled"
    /\ IF readLoop = "running"
       THEN /\ readLoop' = "cancelled"
            /\ UNCHANGED <<writer, log>>
       ELSE /\ writer' = "null"
            /\ log' = Append(log, [sev |-> "info", tag |-> "Disconnected from Ground Station",
                                   data |-> <<>>])
            /\ UNCHANGED readLoop
    /\ calls' = [calls EXCEPT !.disconnects = @ + 1]
    /\ UNCHANGED <<dataBuffer, configBuffer, collectingConfig, pollBuffer, obclDataArray,
                   imageReceptions, imagePacketBuffer, currentImageFilename, now, written,
                   pending, rt, frames, completions, stream, pos>>

\* The read loop after reader.cancel(): the pending read gives done, the
\* loop breaks and releases the reader, and the readLoop promise resolves.
ReadLoopEnds ==
    /\ readLoop = "cancelled"
    /\ readLoop' = "ended"
    /\ UNCHANGED <<dataBuffer, configBuffer, collectingConfig, pollBuffer, obclDataArray,
                   imageReceptions, imagePacketBuffer, currentImageFilename, writer, now, log,
                   written, pending, rt, frames, completions, stream, pos, calls>>

\* disconnect() after its await of the read loop: the writer is closed and
\* dropped, the port closed.
Disconnected ==
    /\ readLoop = "ended"
    /\ writer # "null"
    /\ writer' = "null"
    /\ log' = Append(log, [sev |-> "info", tag |-> "Disconnected from Ground Station",
                           data |-> <<>>])
    /\ UNCHANGED <<dataBuffer, configBuffer, collectingConfig, pollBuffer, obclDataArray,
                   imageReceptions, imagePacketBuffer, currentImageFilename, readLoop, now,
                   written, pending, rt, frames, completions, stream, pos, calls>>

(***************************************************************************)
(* What the ground station's port delivers                                 *)
(***************************************************************************)
\* n as a little-endian uint32
LE32(n) == <<n % 256, (n \div 256) % 256, (n \div 65536) % 256, (n \div 16777216) % 256>>

\* n as 4 decimal digits
Digits4(n) ==
    <<48 + ((n \div 1000) % 10), 48 + ((n \div 100) % 10), 48 + ((n \div 10) % 10), 48 + (n % 10)>>

\* An image chunk as the satellite sends it: tag, base64 text, total and
\* index, and the newline that ends the radio line.
ChunkLine(tag, payload, total, index) ==
    tag \o payload \o Digits4(total) \o Digits4(index) \o <<10>>

\* A POLL frame with n payload bytes.
PollFrame(n) == tagPOLL \o LE32(n) \o [i \in 1..n |-> i]

(***************************************************************************)
(* POLL frames only                                                        *)
(***************************************************************************)
MaxPollFrames == 4

PollLengths == {0, 24, 40, 64, 70}

ReceivePoll ==
    \E n \in PollLengths :
        /\ calls.deliveries < MaxPollFrames
        /\ Receive(PollFrame(n))

InitPoll == Loaded /\ stream = <<>>

NextPoll == Connect \/ ReceivePoll

SpecPoll == InitPoll /\ [][NextPoll]_vars

\* The records in the log.
Records(lg) == Len(SelectSeq(lg, LAMBDA e : e.tag = "Environmental Poll Data:"))

Readings(lg) == SelectSeq(lg, LAMBDA e : e.tag = "Sensor")

\* What a step that hands a POLL frame to the decoder does to the
\* accumulator and the log.
PollStep ==
    Len(frames') = Len(frames) + 1 =>
        LET frame       == frames'[Len(frames')].bytes
            accumulated == pollBuffer \o SliceFrom(frame, 8)
        IN  IF Len(accumulated) >= 64
            THEN /\ pollBuffer' = <<>>
                 /\ Records(log') = Records(log) + 1
                 /\ Readings(log') = Readings(log) \o
                        [i \in 1..16 |-> [sev |-> "response", tag |-> "Sensor",
                                          data |-> <<i, GetUint32(accumulated, 4 * (i - 1))>>]]
            ELSE /\ pollBuffer' = accumulated
                 /\ log' = log

\* C10: each POLL frame appends its payload to pollBuffer; one record (a
\* header and the 16 words of the first 64 accumulated bytes) is logged
\* exactly in the steps where the accumulated length is at least 64, and
\* pollBuffer is empty after such a step, so that pollBuffer always holds
\* fewer than 64 bytes between frames.
PollAccumulation == [](Len(pollBuffer) < 64) /\ [][PollStep]_vars

\* Payloads of 40 then 24 bytes have given one record, after the second.
PollAccumulationWitness ==
    /\ Len(frames) = 2
    /\ Len(frames[1].bytes) = 8 + 40
    /\ Len(frames[2].bytes) = 8 + 24
    /\ Records(log) = 1
    /\ pollBuffer = <<>>

(***************************************************************************)
(* One byte stream, cut into deliveries                                    *)
(***************************************************************************)
MaxDeliveries == 3

textOK == <<79, 75, 10>>

frameGYRO == tagGYRO \o <<1, 0, 0, 0, 2, 0, 0, 0, 3, 0, 0, 0>>

payloadABC == <<81, 85, 74, 68>>

\* Concatenations of valid frames: text lines, a telemetry frame, an image
\* chunk.
Streams ==
    {ChunkLine(tagSEND, payloadABC, 1, 0),
     textOK \o frameGYRO \o textOK,
     frameGYRO \o ChunkLine(tagRETX, payloadABC, 2, 1) \o textOK}

\* The world of Loaded.
Fresh ==
    [dataBuffer        |-> <<>>,
     configBuffer      |-> <<>>,
     collectingConfig  |-> FALSE,
     pollBuffer        |-> <<>>,
     obclDataArray     |-> <<>>,
     imageReceptions   |-> <<>>,
     imagePacketBuffer |-> <<>>,
     log               |-> <<>>,
     pending           |-> <<>>,
     frames            |-> <<>>,
     completions       |-> <<>>]

\* reader.read() gives the next n bytes of the stream.
Deliver ==
    \E n \in 1..(Len(stream) - pos) :
        /\ readLoop = "running"
        /\ calls.deliveries < MaxDeliveries
        /\ Commit(processReceivedData(World, Slice(stream, pos, pos + n),
                                      currentImageFilename, now))
        /\ pos' = pos + n
        /\ calls' = [calls EXCEPT !.deliveries = @ + 1]
        /\ UNCHANGED <<currentImageFilename, writer, readLoop, now, written, rt, stream>>

InitFramer == Loaded /\ stream \in Streams

NextFramer == Connect \/ Deliver

SpecFramer == InitFramer /\ [][NextFramer]_vars

\* The frames handed on when the whole stream comes in one delivery.
SingleDelivery == processReceivedData(Fresh, stream, Null, 0).frames

\* C1: once the whole stream has been delivered, in whatever pieces, the
\* frames handed to processTextLine, unpackCommand and processImagePacket
\* (kind and bytes, in order) are those of the single delivery.
ChunkBoundaryIndependence == pos = Len(stream) => frames = SingleDelivery

\* A stream delivered in more than one piece.
ChunkBoundaryWitness == pos = Len(stream) /\ calls.deliveries > 1

(***************************************************************************)
(* Image chunks, one radio line per delivery                               *)
(***************************************************************************)
MaxChunkLines == 3

MaxTicks == 1

\* The base64 text of emptyGzip, in two chunks.
payloadGzHead == <<72, 52, 115, 73, 65, 65, 65, 65, 65, 65, 65, 65>>

payloadGzTail ==
    <<65, 119, 77, 65, 65, 65, 65, 65, 65, 65, 65, 65, 65, 65, 65, 61>>

\* 'QQ=='
payloadPadded == <<81, 81, 61, 61>>

\* The chunks of a 2-chunk image, each with more than one text.
ChunkLines ==
    {ChunkLine(tagSEND, payloadGzHead, 2, 0),
     ChunkLine(tagRETX, payloadPadded, 2, 0),
     ChunkLine(tagSEND, payloadGzTail, 2, 1),
     ChunkLine(tagRETX, payloadABC, 2, 1),
     ChunkLine(tagSEND, payloadPadded, 2, 1)}

ReceiveChunk ==
    \E line \in ChunkLines :
        /\ calls.deliveries < MaxChunkLines
        /\ Receive(line)

Clock ==
    /\ now < MaxTicks * 1000
    /\ Tick(1000)

\* The browser settles a decompression promise.
DecompressSettle == \E n \in 1..Len(pending) : DecompressResolve(n) \/ DecompressReject(n)

InitImage == Loaded /\ stream = <<>>

NextImage == Connect \/ ReceiveChunk \/ Clock \/ DecompressSettle

SpecImage == InitImage /\ [][NextImage]_vars /\ WF_vars(DecompressSettle)

\* Total and index of a chunk frame, from its 8 trailing digits.
ChunkTotal(bytes) == ParseInt(SubSeq(bytes, Len(bytes) - 7, Len(bytes) - 4))

ChunkIndex(bytes) == ParseInt(SubSeq(bytes, Len(bytes) - 3, Len(bytes)))

ChunkText(bytes) == SubSeq(bytes, 5, Len(bytes) - 8)

\* The step handed one image frame to processImagePacket.
ChunkHanded ==
    /\ Len(frames') = Len(frames) + 1
    /\ frames'[Len(frames')].kind = "image"

IsFull(receptions, id) ==
    /\ MapHas(receptions, id)
    /\ Cardinality(MapGet(receptions, id).receivedChunks) = MapGet(receptions, id).totalChunks

\* The frame repeats an index that a reception of its total already holds.
IsDuplicate(bytes) ==
    \E id \in MapKeys(imageReceptions) :
        /\ MapGet(imageReceptions, id).totalChunks = ChunkTotal(bytes)
        /\ ChunkIndex(bytes) \in MapGet(imageReceptions, id).receivedChunks

DuplicateStep ==
    ChunkHanded /\ IsDuplicate(frames'[Len(frames')].bytes) =>
        /\ imageReceptions' = imageReceptions
        /\ imagePacketBuffer' = imagePacketBuffer
        /\ log' = log
        /\ completions' = completions
        /\ pending' = pending

\* C2: a chunk frame whose total and index a reception in the table already
\* holds changes neither table (received set, stored text, lastPacketTime,
\* retransmitAttempts all stay), logs nothing and completes nothing.
DuplicateNoOp == [][DuplicateStep]_vars

\* The same index of the same total has come twice, with different text and
\* at a later time, and the reception is there.
DuplicateNoOpWitness ==
    /\ Len(frames) = 2
    /\ ChunkTotal(frames[1].bytes) = 2
    /\ ChunkTotal(frames[2].bytes) = 2
    /\ ChunkIndex(frames[1].bytes) = ChunkIndex(frames[2].bytes)
    /\ ChunkText(frames[1].bytes) # ChunkText(frames[2].bytes)
    /\ MapHas(imageReceptions, ImageId(2))
    /\ MapGet(imageReceptions, ImageId(2)).lastPacketTime < now
    /\ MapGet(imagePacketBuffer, ImageId(2)) =
           <<[k |-> ChunkIndex(frames[1].bytes), v |-> ChunkText(frames[1].bytes)]>>

Completions(id) == Len(SelectSeq(completions, LAMBDA c : c.imageId = id))

Started(id) ==
    Len(SelectSeq(log, LAMBDA e : e.tag = "Starting image reception"
                                  /\ SubSeq(e.data, 1, Len(e.data) - 1) = id))

\* The receptions that a step makes full.
Filled == {id \in MapKeys(imageReceptions') :
               IsFull(imageReceptions', id) /\ ~IsFull(imageReceptions, id)}

CompletionStep ==
    /\ Len(completions') = Len(completions) + Cardinality(Filled)
    /\ SubSeq(completions', 1, Len(completions)) = completions
    /\ \A id \in Filled :
          /\ Len(completions') = Len(completions) + 1
          /\ completions'[Len(completions')].imageId = id
          /\ ChunkHanded
          /\ ~IsDuplicate(frames'[Len(frames')].bytes)

\* C3: completeImageReception runs exactly in the steps in which a newly
\* stored chunk makes a reception's received set as large as its total, and
\* never more often for an id than receptions were started under it.
CompletesOnce ==
    /\ [][CompletionStep]_vars
    /\ [](\A id \in MapKeys(imageReceptions) : Completions(id) <= Started(id))

\* A full reception is in the table, and chunks of its total came in after
\* it was completed.
CompletesOnceWitness ==
    /\ IsFull(imageReceptions, ImageId(2))
    /\ Completions(ImageId(2)) = 1
    /\ Len(frames) = 3

\* The ids a reception can get here: img_N, or img_N_<time> when its first
\* chunk is not chunk 0.
ImageIds == {ImageId(2)} \cup {StampedImageId(2, k * 1000) : k \in 0..MaxTicks}

Removed(id) == ~MapHas(imageReceptions, id) /\ ~MapHas(imagePacketBuffer, id)

IsBase64Text(text) == MatchesBase64(text) /\ Atob(text).ok

\* Every chunk of the reception is there, each a valid base64 text.
FullyDelivered(id) ==
    /\ IsFull(imageReceptions, id)
    /\ MapHas(imagePacketBuffer, id)
    /\ \A e \in Range(MapGet(imagePacketBuffer, id)) : IsBase64Text(e.v)

\* ... and put together they are the base64 text of a gzip stream.
Decompressible(id) ==
    /\ FullyDelivered(id)
    /\ LET text == Reconstruct(MapGet(imagePacketBuffer, id),
                               MapGet(imageReceptions, id).totalChunks, 0).data
       IN  /\ IsBase64Text(text)
           /\ GzipVerdict(Atob(text).bytes) = "resolve"

\* C4 as stated: a reception whose chunks have all come, with valid base64
\* payloads, has been completed once and is eventually removed from both
\* tables.
ImageClosedAlways ==
    /\ [](\A id \in ImageIds : FullyDelivered(id) => Completions(id) = Started(id))
    /\ \A id \in ImageIds : FullyDelivered(id) ~> Removed(id)

\* C4, amended: a reception whose chunks have all come and together are the
\* base64 text of a gzip stream has been completed once and is eventually
\* removed from both tables.
ImageClosed ==
    /\ [](\A id \in ImageIds : FullyDelivered(id) => Completions(id) = Started(id))
    /\ \A id \in ImageIds : Decompressible(id) ~> Removed(id)

\* A reception was completed, decompressed and removed.
ImageClosedWitness ==
    /\ Completions(ImageId(2)) = 1
    /\ Removed(ImageId(2))
    /\ pending = <<>>
    /\ \E i \in 1..Len(log) : log[i].tag = "Image reception cleanup completed"

(***************************************************************************)
(* One image, its chunks in any order                                      *)
(***************************************************************************)
MaxChunks == 3

\* 'QUI='
payloadAB == <<81, 85, 73, 61>>

ChunkTexts == {payloadABC, payloadAB, payloadPadded}

\* In this specification stream is the image as the satellite holds it: the
\* text of chunk i at stream[i + 1].
InitOrder ==
    /\ Loaded
    /\ \E n \in 2..MaxChunks : stream \in [1..n -> ChunkTexts]

Arrived == {ChunkIndex(frames[n].bytes) : n \in 1..Len(frames)}

\* A chunk that has not come yet arrives.
ReceiveInAnyOrder ==
    \E i \in (0..(Len(stream) - 1)) \ Arrived :
        Receive(ChunkLine(tagSEND, stream[i + 1], Len(stream), i))

NextOrder == Connect \/ ReceiveInAnyOrder

SpecOrder == InitOrder /\ [][NextOrder]_vars

\* text.replace(/=+$/, '')
RECURSIVE WithoutPadding(_)
WithoutPadding(text) ==
    IF text # <<>> /\ text[Len(text)] = 61
    THEN WithoutPadding(SubSeq(text, 1, Len(text) - 1))
    ELSE text

\* The chunks from index i on, in index order, padding kept on the last.
RECURSIVE InIndexOrder(_)
InIndexOrder(i) ==
    IF i > Len(stream) THEN <<>>
    ELSE (IF i < Len(stream) THEN WithoutPadding(stream[i]) ELSE stream[i])
             \o InIndexOrder(i + 1)

\* C5: in whatever order the N chunks of an image arrive, nothing is
\* completed before the last of them, and with the last the reception is
\* completed once, on the chunk texts concatenated in index order with the
\* trailing '=' taken off every chunk but chunk N-1.
OrderIndependence ==
    IF Arrived = 0..(Len(stream) - 1)
    THEN /\ Len(completions) = 1
         /\ completions[1].data = InIndexOrder(1)
         /\ completions[1].outcome \notin {"missingData", "missingChunk"}
    ELSE completions = <<>>

\* All chunks have come, the first of them last.
OrderIndependenceWitness ==
    /\ Len(stream) = 3
    /\ Len(frames) = 3
    /\ ChunkIndex(frames[3].bytes) = 0
    /\ ChunkIndex(frames[1].bytes) = 2
    /\ stream[1] = payloadPadded
    /\ stream[3] = payloadAB
    /\ Len(completions) = 1

(***************************************************************************)
(* Retransmission requests for an image that lacks chunks                  *)
(***************************************************************************)
MaxEvents == 3

\* The commands, reads and requests so far.
Events == calls.commands + calls.deliveries + calls.requests

\* 'a.jpg'
nameShort == <<97, 46, 106, 112, 103>>

\* n characters ending in '.jpg'
NameOfLength(n) == [i \in 1..(n - 4) |-> 120] \o <<46, 106, 112, 103>>

\* With '.chunked' added: 13 characters, 37 (the longest with two indices
\* to a command), 38, 46 (a command with a one-digit index is 59 long) and
\* 47 (no command fits).
Filenames ==
    {nameShort, NameOfLength(29), NameOfLength(30), NameOfLength(38), NameOfLength(39)}

SendImage ==
    \E name \in Filenames :
        /\ Events < MaxEvents
        /\ sendCommand(strSEND_IMAGE \o <<32>> \o name)

RECURSIVE Lines(_, _)
Lines(total, indices) ==
    IF indices = <<>> THEN <<>>
    ELSE ChunkLine(tagSEND, payloadABC, total, Head(indices)) \o Lines(total, Tail(indices))

\* What one read gives: the chunks of a 10-chunk image but 2 and 7, without
\* or with chunk 2 retransmitted after them.
Bursts ==
    {Lines(10, <<0, 1, 3, 4, 5, 6, 8, 9>>),
     Lines(10, <<0, 1, 3, 4, 5, 6, 8, 9>>) \o ChunkLine(tagRETX, payloadABC, 10, 2)}

ReceiveBurst ==
    \E burst \in Bursts :
        /\ Events < MaxEvents
        /\ Receive(burst)

\* An id that no reception has.
noImage == ImageId(99)

\* A list given by the caller, of indices that no image of this protocol has.
givenList == <<1000001, 1000002, 1000003, 1000004, 1000005, 1000006>>

\* A request for a reception of the table, or one with a list for an id
\* that is not in the table.
Request ==
    \E imageId \in MapKeys(imageReceptions) \cup {noImage}, missingPackets \in {Null, givenList} :
        /\ Events < MaxEvents
        /\ (imageId = noImage) = (missingPackets = givenList)
        /\ requestRetransmission(imageId, missingPackets)

\* Time passes while the call sleeps.
Sleep ==
    /\ rt.pc = "awaitDelay"
    /\ now < rt.wake
    /\ Tick(2000)

InitRetx == Loaded /\ stream = <<>>

NextRetx ==
    \/ Connect
    \/ SendImage
    \/ ReceiveBurst
    \/ Request
    \/ RetransmitWritten
    \/ Sleep
    \/ RetransmitWoken

SpecRetx == InitRetx /\ [][NextRetx]_vars

\* The words of a written line, its newline taken off.
Tokens(line) == SplitSpace(SubSeq(line, 1, Len(line) - 1))

FilenameToken(line) == Tokens(line)[2]

IndicesOf(line) == [k \in 1..(Len(Tokens(line)) - 2) |-> ParseInt(Tokens(line)[k + 2])]

CallLines(call) == SelectSeq(written, LAMBDA e : e.call = call)

\* The indices that a call asked for, in the order written.
IndicesWritten(call) ==
    Flatten([k \in 1..Len(CallLines(call)) |-> IndicesOf(CallLines(call)[k].data)])

\* The elements of a set of numbers, ascending.
RECURSIVE Ascending(_)
Ascending(S) ==
    IF S = {} THEN <<>>
    ELSE LET least == CHOOSE i \in S : \A j \in S : i <= j
         IN  <<least>> \o Ascending(S \ {least})

MissingOf(receptions, id) ==
    Ascending((0..(MapGet(receptions, id).totalChunks - 1))
                  \ MapGet(receptions, id).receivedChunks)

\* 'RETRANSMIT', the name and this one index make a command of at most 59
\* characters, 60 bytes with its newline.
Fits(filename, index) == 10 + 1 + Len(filename) + 1 + Len(ToDecimal(index)) + 1 <= 60

\* The argument of the last SEND_IMAGE command sent before the reception
\* under this id started, or Null.
RegisteredBefore(id) ==
    LET started == FirstIndex({n \in 1..Len(log) :
                                  /\ log[n].tag = "Starting image reception"
                                  /\ SubSeq(log[n].data, 1, Len(log[n].data) - 1) = id})
        sent    == LastIndex({n \in 1..(started - 1) :
                                  /\ log[n].tag = "Sending command"
                                  /\ StartsWith(log[n].data, strSEND_IMAGE \o <<32>>)})
    IN  IF started = -1 \/ sent = -1 THEN Null
        ELSE SubSeq(log[sent].data, Len(strSEND_IMAGE) + 2, Len(log[sent].data))

\* A call for a reception of the table, without a list, has run to its end.
CallDone == rt.pc = "done" /\ rt.known /\ rt.auto

\* C6 as stated: a call for a reception with a registered filename, with
\* chunks missing and its attempts below the ceiling, has written commands
\* that end in a newline and list every missing index once, ascending; both
\* 2 and 7 are in one command when these two are what is missing.
RetransmissionCoverage ==
    CallDone /\ RegisteredBefore(rt.imageId) # Null =>
        /\ IndicesWritten(rt.call) = rt.missing
        /\ \A n \in 1..Len(written) : written[n].data[Len(written[n].data)] = 10
        /\ rt.missing = <<2, 7>> =>
               \E n \in 1..Len(written) :
                   written[n].call = rt.call /\ IndicesOf(written[n].data) = <<2, 7>>

\* A call without a list works on the indices that the reception lacks.
RequestStep ==
    calls.requests' = calls.requests + 1 /\ rt'.known /\ rt'.auto =>
        rt'.missing = MissingOf(imageReceptions, rt'.imageId)

\* C6, amended: the commands of such a call end in a newline and list, once
\* each and ascending, the missing indices that fit in a command of 60
\* bytes with the reception's filename; the others are left out.  2 and 7
\* are in one command when the name has at most 37 characters.
CoverageWithinBudget ==
    /\ [][RequestStep]_vars
    /\ [](CallDone =>
            /\ IndicesWritten(rt.call) =
                   SelectSeq(rt.missing, LAMBDA i : Fits(rt.filename, i))
            /\ \A n \in 1..Len(written) : written[n].data[Len(written[n].data)] = 10
            /\ rt.missing = <<2, 7>> /\ Len(rt.filename) <= 37 =>
                   /\ Len(CallLines(rt.call)) = 1
                   /\ IndicesOf(CallLines(rt.call)[1].data) = <<2, 7>>)

\* A call for the image that lacks 2 and 7, registered as a.jpg, has asked
\* for both in one command.
CoverageWitness ==
    /\ CallDone
    /\ RegisteredBefore(rt.imageId) = nameShort
    /\ rt.missing = <<2, 7>>
    /\ Len(CallLines(rt.call)) = 1
    /\ IndicesWritten(rt.call) = <<2, 7>>

\* C7: every line that requestRetransmission writes is at most 60 bytes
\* long, its newline included.
CommandBudget ==
    \A n \in 1..Len(written) :
        written[n].call > 0 =>
            /\ Len(written[n].data) <= 60
            /\ written[n].data[Len(written[n].data)] = 10

\* A line of exactly 60 bytes was written.
CommandBudgetWitness ==
    \E n \in 1..Len(written) : written[n].call > 0 /\ Len(written[n].data) = 60

\* C8: a RETRANSMIT command for a reception names the file as registered by
\* the last SEND_IMAGE command sent before the reception's first chunk:
\* that command's argument with '.chunked' added.
LiteralFilename ==
    \A n \in 1..Len(written) :
        written[n].call > 0 /\ written[n].known
            /\ RegisteredBefore(written[n].imageId) # Null =>
                FilenameToken(written[n].data) =
                    RegisteredBefore(written[n].imageId) \o <<46, 99, 104, 117, 110, 107, 101, 100>>

\* A command was written for a reception registered as a.jpg.
LiteralFilenameWitness ==
    \E n \in 1..Len(written) :
        /\ written[n].call > 0
        /\ written[n].known
        /\ RegisteredBefore(written[n].imageId) = nameShort
        /\ Len(FilenameToken(written[n].data)) = 13

(***************************************************************************)
(* Request after request for one reception                                 *)
(***************************************************************************)
MaxCalls == 4

\* The image arrives without chunks 2 and 7.
ReceiveMost ==
    /\ imageReceptions = <<>>
    /\ Receive(Lines(10, <<0, 1, 3, 4, 5, 6, 8, 9>>))

\* One of the two arrives after all, retransmitted.
ReceiveRetransmitted ==
    \E index \in {2, 7} :
        /\ MapHas(imageReceptions, ImageId(10))
        /\ index \notin MapGet(imageReceptions, ImageId(10)).receivedChunks
        /\ Receive(ChunkLine(tagRETX, payloadABC, 10, index))

RequestAgain ==
    \E imageId \in MapKeys(imageReceptions) :
        /\ calls.requests < MaxCalls
        /\ requestRetransmission(imageId, Null)

InitCeiling == Loaded /\ stream = <<>>

NextCeiling ==
    \/ Connect
    \/ ReceiveMost
    \/ ReceiveRetransmitted
    \/ RequestAgain
    \/ RetransmitWritten

SpecCeiling == InitCeiling /\ [][NextCeiling]_vars

\* A call for a reception that has been asked for three times or more and
\* still lacks chunks writes nothing and ends on the warning.
CeilingStep ==
    /\ calls.requests' = calls.requests + 1
    /\ writer # "null"
    /\ rt'.known
    /\ MapGet(imageReceptions, rt'.imageId).retransmitAttempts >= 3
    /\ MissingOf(imageReceptions, rt'.imageId) # <<>>
    => /\ written' = written
       /\ rt'.pc = "returned"
       /\ log'[Len(log')].sev = "warning"
       /\ log'[Len(log')].tag = "Maximum retransmit attempts reached"

\* C9: the commands written for a reception are written by its first three
\* calls; from the fourth on a call with chunks still missing reports the
\* warning and writes nothing, whatever chunks arrived between the calls.
RetryCeiling ==
    /\ [][CeilingStep]_vars
    /\ [](\A n \in 1..Len(written) :
              written[n].call > 0 /\ written[n].known => written[n].attempt <= 3)

\* The fourth call was refused; the first had asked for 2 and 7, and one
\* of them arrived before the last.
RetryCeilingWitness ==
    /\ rt.pc = "returned"
    /\ rt.attempt = 4
    /\ Len(rt.missing) = 1
    /\ Len(written) = 3
    /\ IndicesOf(written[1].data) = <<2, 7>>
    /\ written[3].attempt = 3

(***************************************************************************)
(* The telemetry decoder called on frames of any length                    *)
(***************************************************************************)
MaxUnpacks == 2

\* The tags of fixed size, in the order of unpackCommand's switch.
fixedTags ==
    <<tagGYRO, tagACCL, tagMAGN, tagGRAV, tagEULR, tagBMED, tagOBCR, tagOBCD,
      tagOBCC, tagOBCL, tagOBCP, tagADCS, tagEPSS, tagHOST, tagSOLR>>

\* The size the claim gives for each of them.
fixedSizes == <<16, 16, 16, 16, 16, 16, 8, 8, 8, 234, 234, 32, 28, 15, 36>>

\* A frame of n bytes under a tag: the tag and bytes of value 1.
FrameOf(tag, n) == tag \o [i \in 1..(n - 4) |-> 1]

\* An OBCP frame with the text 'ab' in its 230 bytes, the rest NUL.
frameOBCP == tagOBCP \o <<97, 98>> \o [i \in 1..228 |-> 0]

\* For each fixed tag: the tag alone, one byte less than its size, its
\* size; and the two frames that fill the accumulators.
UnpackFrames ==
    UNION {{FrameOf(fixedTags[k], 4),
            FrameOf(fixedTags[k], fixedSizes[k] - 1),
            FrameOf(fixedTags[k], fixedSizes[k])} : k \in 1..Len(fixedTags)}
    \cup {PollFrame(24), frameOBCP}

\* unpackCommand(data), called on its own.
Unpack ==
    \E data \in UnpackFrames :
        /\ calls.deliveries < MaxUnpacks
        /\ Commit(unpackCommand(Handed(World, "telemetry", data), data))
        /\ calls' = [calls EXCEPT !.deliveries = @ + 1]
        /\ UNCHANGED <<currentImageFilename, writer, readLoop, now, written, rt, stream, pos>>

InitUnpack == Loaded /\ stream = <<>>

NextUnpack == Unpack

SpecUnpack == InitUnpack /\ [][NextUnpack]_vars

\* The frame is under a fixed tag and shorter than the tag's size.
IsShort(frame) ==
    /\ Len(frame) >= 4
    /\ \E k \in 1..Len(fixedTags) :
           /\ SubSeq(frame, 1, 4) = fixedTags[k]
           /\ Len(frame) < fixedSizes[k]

\* What the call on a short frame does: one warning that gives the frame's
\* length, and nothing else.
ShortFrameStep ==
    Len(frames') = Len(frames) + 1 /\ IsShort(frames'[Len(frames')].bytes) =>
        /\ Len(log') = Len(log) + 1
        /\ SubSeq(log', 1, Len(log)) = log
        /\ log'[Len(log')].sev = "warning"
        /\ log'[Len(log')].tag = "Invalid packet size"
        /\ log'[Len(log')].data[Len(log'[Len(log')].data)] = Len(frames'[Len(frames')].bytes)
        /\ pollBuffer' = pollBuffer
        /\ obclDataArray' = obclDataArray
        /\ UNCHANGED <<dataBuffer, configBuffer, collectingConfig, imageReceptions,
                       imagePacketBuffer, pending, completions>>

\* C11: unpackCommand on a frame of at least 4 bytes under a fixed-size tag
\* and shorter than that size logs exactly one warning, logs no telemetry
\* record, and leaves pollBuffer, obclDataArray and all other state as they
\* were.
ShortFrameDropped == [][ShortFrameStep]_vars

\* A short OBCP frame was dropped while obclDataArray held data.
ShortFrameDroppedWitness ==
    /\ Len(frames) = 2
    /\ frames[1].bytes = frameOBCP
    /\ frames[2].bytes = FrameOf(tagOBCP, 233)
    /\ obclDataArray = <<<<97, 98>>>>
    /\ log[Len(log)].tag = "Invalid packet size"

(***************************************************************************)
(* Deliveries of several hundred bytes                                     *)
(***************************************************************************)
MaxBlocks == 4

\* n bytes of the letter x, no newline among them.
Filler(n) == [i \in 1..n |-> 120]

\* The head of a POLL frame that declares 2000 payload bytes, a text line,
\* and text without a newline in pieces of 400 and 700 bytes.
Blocks ==
    {tagPOLL \o LE32(2000) \o Filler(392),
     textOK,
     Filler(400),
     Filler(700)}

ReceiveBlock ==
    \E data \in Blocks :
        /\ calls.deliveries < MaxBlocks
        /\ Receive(data)

InitBuffer == Loaded /\ stream = <<>>

NextBuffer == Connect \/ ReceiveBlock

SpecBuffer == InitBuffer /\ [][NextBuffer]_vars

\* C12: whenever processReceivedData has returned, dataBuffer holds at most
\* 1024 bytes.
BoundedBuffer == Len(dataBuffer) <= 1024

(***************************************************************************)
(* The operations that assign dataBuffer                                   *)
(***************************************************************************)
\* 'get_radio_config'
strGetRadioConfig ==
    <<103, 101, 116, 95, 114, 97, 100, 105, 111, 95, 99, 111, 110, 102, 105, 103>>

\* queryRadioConfig() up to the write of its command: sendCommand runs
\* inside it, and the 3 s response timer is armed after it.
queryRadioConfig ==
    IF writer = "null"
    THEN /\ log' = Append(log, [sev |-> "error", tag |-> "Not connected to Ground Station",
                                data |-> <<>>])
         /\ calls' = [calls EXCEPT !.commands = @ + 1]
         /\ UNCHANGED <<dataBuffer, configBuffer, collectingConfig, pollBuffer, obclDataArray,
                        imageReceptions, imagePacketBuffer, currentImageFilename, writer,
                        readLoop, now, written, pending, rt, frames, completions, stream, pos>>
    ELSE /\ dataBuffer' = <<>>
         /\ log' = log \o
                <<[sev |-> "info", tag |-> "Querying radio configuration...", data |-> <<>>],
                  [sev |-> "command", tag |-> "Sending command", data |-> strGetRadioConfig]>>
         /\ written' = Write(written, rtIdle, TextEncode(strGetRadioConfig \o <<10>>))
         /\ calls' = [calls EXCEPT !.commands = @ + 1, !.timers = @ + 1]
         /\ UNCHANGED <<configBuffer, collectingConfig, pollBuffer, obclDataArray,
                        imageReceptions, imagePacketBuffer, currentImageFilename, writer,
                        readLoop, now, pending, rt, frames, completions, stream, pos>>

\* The response timer of queryRadioConfig fires.
QueryTimeout ==
    /\ calls.timers > 0
    /\ calls' = [calls EXCEPT !.timers = @ - 1]
    /\ log' = IF Len(dataBuffer) = 0
              THEN Append(log, [sev |-> "warning", tag |-> "No response received from hardware",
                                data |-> <<>>])
              ELSE log
    /\ UNCHANGED <<dataBuffer, configBuffer, collectingConfig, pollBuffer, obclDataArray,
                   imageReceptions, imagePacketBuffer, currentImageFilename, writer, readLoop,
                   now, written, pending, rt, frames, completions, stream, pos>>

\* clearDataBuffer()
clearDataBuffer ==
    /\ dataBuffer' = <<>>
    /\ log' = Append(log, [sev |-> "info", tag |-> "Serial data buffer cleared", data |-> <<>>])
    /\ calls' = [calls EXCEPT !.clears = @ + 1]
    /\ UNCHANGED <<configBuffer, collectingConfig, pollBuffer, obclDataArray, imageReceptions,
                   imagePacketBuffer, currentImageFilename, writer, readLoop, now, written,
                   pending, rt, frames, completions, stream, pos>>

MaxOwnerCalls == 4

OwnerCalls ==
    calls.deliveries + calls.commands + calls.clears + calls.connects + calls.disconnects

\* The operator's side: any of the handlers, while calls are left.
Operate ==
    /\ OwnerCalls < MaxOwnerCalls
    /\ \/ Connect
       \/ Deliver
       \/ queryRadioConfig
       \/ clearDataBuffer
       \/ sendCommand(strGetRadioConfig)
       \/ disconnect

InitOwner == Loaded /\ stream = frameGYRO \o textOK

NextOwner == Operate \/ QueryTimeout \/ ReadLoopEnds \/ Disconnected

SpecOwner == InitOwner /\ [][NextOwner]_vars

\* dataBuffer after the step is what a delivery appended to it with a prefix
\* removed, or it is empty after a delivery that made it longer than 1024
\* bytes; a step that delivers nothing leaves it as it was.
OwnedStep ==
    IF pos' # pos
    THEN LET appended == dataBuffer \o Slice(stream, pos, pos')
         IN  \/ \E k \in 0..Len(appended) : dataBuffer' = SliceFrom(appended, k)
             \/ Len(appended) > 1024 /\ dataBuffer' = <<>>
    ELSE dataBuffer' = dataBuffer

\* C13: in every operation dataBuffer changes only by the append of
\* delivered bytes, the removal of a prefix, or the overflow discard.
BufferOwnership == [][OwnedStep]_vars

(***************************************************************************)
(* Telemetry frames only, split anywhere                                   *)
(***************************************************************************)
TelemetryStreams ==
    {PollFrame(3) \o frameGYRO,
     FrameOf(tagOBCR, 8) \o PollFrame(0) \o FrameOf(tagHOST, 15)}

InitTelemetry == Loaded /\ stream \in TelemetryStreams

NextTelemetry == Connect \/ Deliver

SpecTelemetry == InitTelemetry /\ [][NextTelemetry]_vars

\* The length the frame at the front of the buffer must have: the claim's
\* size for a fixed tag, 8 + the declared payload length for POLL with its
\* 8 header bytes buffered; 0 when the front is neither.
RequiredLength(buffer) ==
    IF Len(buffer) < 4 THEN 0
    ELSE IF \E k \in 1..Len(fixedTags) : SubSeq(buffer, 1, 4) = fixedTags[k]
    THEN fixedSizes[CHOOSE k \in 1..Len(fixedTags) : SubSeq(buffer, 1, 4) = fixedTags[k]]
    ELSE IF SubSeq(buffer, 1, 4) = tagPOLL /\ Len(buffer) >= 8
    THEN 8 + buffer[5] + 256 * buffer[6] + 65536 * buffer[7] + 16777216 * buffer[8]
    ELSE 0

\* A delivery onto a telemetry front: too short, nothing happens but the
\* append; long enough, exactly the frame's bytes go to unpackCommand first
\* and are removed.
WholeFrameStep ==
    pos' # pos =>
        LET appended == dataBuffer \o Slice(stream, pos, pos')
            required == RequiredLength(appended)
        IN  /\ required > 0 /\ Len(appended) < required =>
                /\ dataBuffer' = appended
                /\ frames' = frames
                /\ log' = log
                /\ pollBuffer' = pollBuffer
            /\ required > 0 /\ Len(appended) >= required =>
                /\ Len(frames') > Len(frames)
                /\ frames'[Len(frames) + 1] =
                       [kind |-> "telemetry", bytes |-> SubSeq(appended, 1, required)]
                /\ \E k \in required..Len(appended) : dataBuffer' = SliceFrom(appended, k)

\* C14: with a fixed-size tag or a POLL header of 8 bytes at the front of
\* the buffer, processReceivedData leaves the buffer as appended and calls
\* no handler while fewer bytes than the frame's length are buffered, and
\* otherwise hands exactly the frame's bytes to unpackCommand and removes
\* exactly those; no frame that is complete is left at the front.
NoPartialConsumption ==
    /\ [][WholeFrameStep]_vars
    /\ [](RequiredLength(dataBuffer) > 0 => Len(dataBuffer) < RequiredLength(dataBuffer))

\* A POLL frame of 11 bytes waited with 9 bytes buffered (header and one
\* payload byte) and was handed over whole by the next delivery.
NoPartialConsumptionWitness ==
    /\ calls.deliveries = 2
    /\ pos = 12
    /\ Len(frames) = 1
    /\ frames[1].bytes = PollFrame(3)
    /\ dataBuffer = <<71>>

(***************************************************************************)
(* Text lines only, split anywhere                                         *)
(***************************************************************************)
\* 'SEND_IMAGE ok' and its newline
lineSendImageOk ==
    <<83, 69, 78, 68, 95, 73, 77, 65, 71, 69, 32, 111, 107, 10>>

\* 'RETX: none' and its newline
lineRetxNone == <<82, 69, 84, 88, 58, 32, 110, 111, 110, 101, 10>>

LineStreams ==
    {textOK \o lineSendImageOk \o textOK,
     lineRetxNone \o textOK}

InitLines == Loaded /\ stream \in LineStreams

NextLines == Connect \/ Deliver

SpecLines == InitLines /\ [][NextLines]_vars

\* C15: when processReceivedData has returned, no complete newline-terminated
\* line of a stream of text lines is left in the buffer: each was emitted
\* during the call that completed it.
NoBlockedLine == \A i \in 1..Len(dataBuffer) : ~IsNewline(dataBuffer[i])

(***************************************************************************)
(* Lines under a SEND or RETX tag, well-formed chunks or not               *)
(***************************************************************************)
MaxTaggedLines == 3

\* 'SENDA00010000', 'SENDQUJD00020001', 'SENDQUJDQ00020000': chunks with a
\* payload of 1, 4 and 5 characters.  'SEND00010000', 'SENDroot': no room
\* for a payload.  'RETXQUJDQUJDQ': no digits at the end.
\* 'SENDQUJDQ00000000': total 0.  'SENDQUJDQ00020002': index 2 of 2.
TaggedLines ==
    {tagSEND \o <<65>> \o Digits4(1) \o Digits4(0) \o <<10>>,
     ChunkLine(tagSEND, payloadABC, 2, 1),
     ChunkLine(tagSEND, payloadABC \o <<81>>, 2, 0),
     tagSEND \o Digits4(1) \o Digits4(0) \o <<10>>,
     tagSEND \o <<114, 111, 111, 116, 10>>,
     tagRETX \o payloadABC \o payloadABC \o <<81, 10>>,
     ChunkLine(tagSEND, payloadABC \o <<81>>, 0, 0),
     ChunkLine(tagSEND, payloadABC \o <<81>>, 2, 2)}

ReceiveTagged ==
    \E line \in TaggedLines :
        /\ calls.deliveries < MaxTaggedLines
        /\ Receive(line)

InitTagged == Loaded /\ stream = <<>>

NextTagged == Connect \/ ReceiveTagged

SpecTagged == InitTagged /\ [][NextTagged]_vars

\* The frame's text after its tag does not end in 8 digits that give a
\* total above 0 and an index below it.
BadMetadata(bytes) ==
    LET tail == SubSeq(bytes, 5, Len(bytes))
        meta == SubSeq(tail, Len(tail) - 7, Len(tail))
    IN  \/ Len(tail) < 8
        \/ \E i \in 1..8 : ~IsDigit(meta[i])
        \/ ParseInt(SubSeq(meta, 1, 4)) <= 0
        \/ ParseInt(SubSeq(meta, 5, 8)) >= ParseInt(SubSeq(meta, 1, 4))

\* The step that hands over a frame: if the frame is malformed, the two
\* tables stay as they are and the frame's text after the tag is logged as
\* a response.
ReclassifiedStep(malformed) ==
    Len(frames') = Len(frames) + 1 /\ malformed =>
        /\ imageReceptions' = imageReceptions
        /\ imagePacketBuffer' = imagePacketBuffer
        /\ completions' = completions
        /\ log' = Append(log, [sev |-> "response", tag |-> "response",
                               data |-> SubSeq(frames'[Len(frames')].bytes, 5,
                                               Len(frames'[Len(frames')].bytes))])

\* C16 as stated: a frame with fewer than 13 characters after its tag, or
\* with bad metadata, is logged as a response and stores nothing.
ReclassifiedUnder13 ==
    [][ReclassifiedStep(\/ Len(frames'[Len(frames')].bytes) - 4 < 13
                        \/ BadMetadata(frames'[Len(frames')].bytes))]_vars

\* C16, amended: a frame with fewer than 13 characters in all, its tag
\* included, or with bad metadata, is logged as a response and stores
\* nothing.
Reclassified ==
    [][ReclassifiedStep(\/ Len(frames'[Len(frames')].bytes) < 13
                        \/ BadMetadata(frames'[Len(frames')].bytes))]_vars

\* An index of 2 out of 2 was logged as a response while a reception of 2
\* chunks was open, and the reception still holds its one chunk.
ReclassifiedWitness ==
    /\ Len(frames) = 2
    /\ frames[2].bytes = tagSEND \o payloadABC \o <<81>> \o Digits4(2) \o Digits4(2)
    /\ MapHas(imageReceptions, ImageId(2))
    /\ MapGet(imageReceptions, ImageId(2)).receivedChunks = {0}
    /\ log[Len(log)].tag = "response"

(***************************************************************************)
(* Images whose reconstruction fails                                       *)
(***************************************************************************)
MaxFailingLines == 3

\* 'Q=QQ'
payloadInnerPad == <<81, 61, 81, 81>>

\* The chunks of a 2-chunk image whose text is no base64 ('Q=QQ' first),
\* does not decode ('QQ==' then 'QQ=='), decodes to bytes that are no gzip
\* stream ('QQ==' then 'QUJD'), or is the empty gzip stream.
FailingLines ==
    {ChunkLine(tagSEND, payloadInnerPad, 2, 0),
     ChunkLine(tagSEND, payloadPadded, 2, 0),
     ChunkLine(tagSEND, payloadGzHead, 2, 0),
     ChunkLine(tagSEND, payloadPadded, 2, 1),
     ChunkLine(tagSEND, payloadABC, 2, 1),
     ChunkLine(tagSEND, payloadGzTail, 2, 1)}

ReceiveFailing ==
    \E line \in FailingLines :
        /\ calls.deliveries < MaxFailingLines
        /\ Receive(line)

InitFailure == Loaded /\ stream = <<>>

NextFailure == Connect \/ ReceiveFailing \/ DecompressSettle

SpecFailure == InitFailure /\ [][NextFailure]_vars /\ WF_vars(DecompressSettle)

\* The outcomes of completeImageReception that end it before decompression.
FailedOutcomes == {"missingChunk", "invalidBase64", "decodeError"}

\* After the step, the reception and its chunk store are in the two tables
\* under the id, with every index received and stored.
KeptWhole(id) ==
    /\ MapHas(imageReceptions', id)
    /\ MapHas(imagePacketBuffer', id)
    /\ MapGet(imageReceptions', id).receivedChunks
           = 0..(MapGet(imageReceptions', id).totalChunks - 1)
    /\ \A i \in MapGet(imageReceptions', id).receivedChunks :
           MapHas(MapGet(imagePacketBuffer', id), i)

\* The step adds an error entry to the log.
ErrorReported == \E i \in (Len(log) + 1)..Len(log') : log'[i].sev = "error"

\* A step in which a completion fails before decompression keeps the
\* reception whole and reports an error; a step in which the decompression
\* promise rejects leaves the two tables as they were, the reception whole
\* in them, and reports an error.
FailureStep ==
    /\ (/\ Len(completions') = Len(completions) + 1
        /\ completions'[Len(completions')].outcome \in FailedOutcomes)
       => /\ KeptWhole(completions'[Len(completions')].imageId)
          /\ ErrorReported
    /\ \A n \in 1..Len(pending) :
           (/\ Len(pending') = Len(pending) - 1
            /\ completions' = completions
            /\ log'[Len(log')].tag # "Image reception cleanup completed"
            /\ pending' = SubSeq(pending, 1, n - 1) \o SubSeq(pending, n + 1, Len(pending)))
           => /\ imageReceptions' = imageReceptions
              /\ imagePacketBuffer' = imagePacketBuffer
              /\ KeptWhole(pending[n].imageId)
              /\ ErrorReported

MaxScanLines == 3

MaxIntervals == 4

\* (size / totalChunks * 100).toFixed(1), in tenths of a percent.
ProgressTenths(size, totalChunks) == (size * 2000 + totalChunks) \div (2 * totalChunks)

\* ReportTimeout that also drops the reception and its chunk store.
ReportTimeoutAndDrop(w, imageId, missing, t) ==
    [w EXCEPT !.imageReceptions = MapDelete(@, imageId),
              !.imagePacketBuffer = MapDelete(@, imageId)]

\* ReportTimeout without 'imageInfo.lastPacketTime = now'.
ReportTimeoutKeepingTime(w, imageId, missing, t) ==
    LET imageInfo == MapGet(w.imageReceptions, imageId)
        progress  == ProgressTenths(Cardinality(imageInfo.receivedChunks), imageInfo.totalChunks)
        w1        == Log(w, "warning", "Image timeout", imageId \o <<progress, Len(missing)>>)
    IN  Log(w1, "info", "Missing packets", Slice(missing, 0, 50))

\* The body of the scan for a stalled reception with missing indexes: the
\* three report lines, then imageInfo.lastPacketTime = now.
ReportTimeout(w, imageId, missing, t) ==
    LET imageInfo == MapGet(w.imageReceptions, imageId)
        progress  == ProgressTenths(Cardinality(imageInfo.receivedChunks), imageInfo.totalChunks)
        w1        == Log(w, "warning", "Image timeout", imageId \o <<progress, Len(missing)>>)
        w2        == Log(w1, "info", "Missing packets",
                         Slice(missing, 0, 50) \o (IF Len(missing) <= 50 THEN <<>>
                                                   ELSE <<Len(missing) - 50>>))
        filename  == IF imageInfo.filename # Null /\ imageInfo.filename # <<>>
                     THEN imageInfo.filename
                     ELSE FallbackFilename(imageId)
        w3        == Log(w2, "info", "Use manual retransmit",
                         strRETRANSMIT \o <<32>> \o filename \o <<32>>
                             \o JoinSpace(Slice(missing, 0, 4)))
    IN  [w3 EXCEPT !.imageReceptions =
            MapSet(@, imageId, [imageInfo EXCEPT !.lastPacketTime = t])]

\* The for loop of the interval callback, from the i-th entry of
\* imageReceptions on.
RECURSIVE ScanReceptions(_, _, _)
ScanReceptions(w, i, t) ==
    IF i > Len(w.imageReceptions) THEN w
    ELSE LET imageId   == w.imageReceptions[i].k
             imageInfo == w.imageReceptions[i].v
             checked   == checkMissingPackets(w, imageId)
         IN  IF t - imageInfo.lastPacketTime > IMAGE_TIMEOUT
             THEN IF Len(checked.missing) > 0
                  THEN ScanReceptions(ReportTimeout(checked.w, imageId, checked.missing, t),
                                      i + 1, t)
                  ELSE ScanReceptions(checked.w, i + 1, t)
             ELSE ScanReceptions(w, i + 1, t)

\* Five seconds pass between two callbacks of the interval.
HalfInterval ==
    /\ now % 10000 = 0
    /\ now < MaxIntervals * 10000
    /\ Tick(5000)

\* The callback of setInterval(..., 10000) runs, ten seconds after the last.
TimeoutScan ==
    /\ now % 10000 = 5000
    /\ now' = now + 5000
    /\ Commit(ScanReceptions(World, 1, now + 5000))
    /\ UNCHANGED <<currentImageFilename, writer, readLoop, written, rt, stream, pos, calls>>

\* Chunks of a 2-chunk and of a 3-chunk image.
ScanLines ==
    {ChunkLine(tagSEND, payloadPadded, 2, 0),
     ChunkLine(tagSEND, payloadPadded, 2, 1),
     ChunkLine(tagSEND, payloadPadded, 3, 0),
     ChunkLine(tagSEND, payloadPadded, 3, 2)}

ReceiveScanned ==
    \E line \in ScanLines :
        /\ calls.deliveries < MaxScanLines
        /\ Receive(line)

InitScan == Loaded /\ stream = <<>>

NextScan == Connect \/ ReceiveScanned \/ HalfInterval \/ TimeoutScan

SpecScan == InitScan /\ [][NextScan]_vars

\* The entries of imageReceptions that a scan at time t has to report.
Stalled(t) ==
    {i \in 1..Len(imageReceptions) :
        /\ t - imageReceptions[i].v.lastPacketTime > 30000
        /\ imageReceptions[i].v.receivedChunks
               # 0..(imageReceptions[i].v.totalChunks - 1)}

\* The timeout lines a step adds to the log.
TimeoutLines == {j \in (Len(log) + 1)..Len(log') : log'[j].tag = "Image timeout"}

\* A scan reports the stalled receptions, one timeout line each under its
\* id, sets their last-activity time to the time of the scan and changes
\* nothing else but the log.
ScanStep ==
    (now' # now /\ now' % 10000 = 0) =>
        /\ Cardinality(TimeoutLines) = Cardinality(Stalled(now'))
        /\ \A i \in Stalled(now') :
               \E j \in TimeoutLines :
                   SubSeq(log'[j].data, 1, Len(imageReceptions[i].k)) = imageReceptions[i].k
        /\ Len(imageReceptions') = Len(imageReceptions)
        /\ \A i \in 1..Len(imageReceptions) :
               /\ imageReceptions'[i].k = imageReceptions[i].k
               /\ imageReceptions'[i].v =
                      IF i \in Stalled(now')
                      THEN [imageReceptions[i].v EXCEPT !.lastPacketTime = now']
                      ELSE imageReceptions[i].v
        /\ UNCHANGED <<imagePacketBuffer, written, rt, dataBuffer, pending, completions,
                       frames, writer, readLoop>>

\* C18: each periodic scan reports exactly the open receptions whose
\* last-activity time is more than 30 s old and whose missing set is not
\* empty; it removes no reception, changes no received set, chunk store or
\* attempt counter, writes nothing to the transport, and changes only the
\* last-activity time of the receptions it reported.
ScanOnlyReports == [][ScanStep]_vars

\* A scan has reported one reception while another, as old but complete,
\* is in the table with its last-activity time untouched.
ScanOnlyReportsWitness ==
    /\ Len(imageReceptions) = 2
    /\ \E j \in 1..Len(log) : log[j].tag = "Image timeout"
    /\ \E i \in 1..2 :
           /\ imageReceptions[i].v.receivedChunks = 0..(imageReceptions[i].v.totalChunks - 1)
           /\ now - imageReceptions[i].v.lastPacketTime > 30000
    /\ \E i \in 1..2 : imageReceptions[i].v.lastPacketTime = now

(***************************************************************************)
(* Disconnecting while bytes arrive                                        *)
(***************************************************************************)
MaxSessionCalls == 5

SessionCalls == calls.deliveries + calls.connects + calls.disconnects

\* The operator connects and disconnects while the port delivers.
Session ==
    /\ SessionCalls < MaxSessionCalls
    /\ \/ Connect
       \/ Deliver
       \/ disconnect

InitSession == Loaded /\ stream = textOK \o frameGYRO \o textOK

NextSession == Session \/ ReadLoopEnds \/ Disconnected

SpecSession == InitSession /\ [][NextSession]_vars

\* The writer is closed only in a step that finds the read loop ended, and
\* bytes are processed only in a step that finds the loop running and
\* leaves it so.
OrderedStep ==
    /\ (writer = "open" /\ writer' = "null") => readLoop = "ended"
    /\ pos' # pos => readLoop = "running" /\ readLoop' = "running" /\ writer = "open"

\* The framer has nothing left to do on the buffer: running its loop again
\* hands over no frame and removes no byte.
ExtractionDone ==
    LET again == ClassifyLoop(World, currentImageFilename, now)
    IN  again.frames = frames /\ again.dataBuffer = dataBuffer

\* C19: disconnect closes the writer only after the read loop has ended;
\* once the writer is closed the loop is over, so that no bytes are
\* processed until a new connect; and when the loop is cancelled or over, no
\* frame extraction is left half-done.
CancellationOrdering ==
    /\ [][OrderedStep]_vars
    /\ [](writer = "null" => readLoop \in {"null", "ended"})
    /\ [](readLoop \in {"cancelled", "ended"} => ExtractionDone)

\* A disconnect has completed after a delivery that left part of a frame in
\* the buffer, with bytes of the stream still to come.
CancellationOrderingWitness ==
    /\ writer = "null"
    /\ readLoop = "ended"
    /\ calls.deliveries >= 1
    /\ dataBuffer # <<>>
    /\ pos < Len(stream)

(***************************************************************************)
(* Failures of every kind in one session                                   *)
(***************************************************************************)
MaxTroubleCalls == 3

\* 'SENDQUJD00000000': a chunk whose total is 0.
lineNoTotal == tagSEND \o payloadABC \o Digits4(0) \o Digits4(0) \o <<10>>

\* What the port delivers: the chunks of a 2-chunk image that is no gzip
\* stream ('QQ==' then 'QUJD') or that is the empty gzip stream; the first
\* chunk of a 3-chunk image; a malformed chunk; a telemetry frame.
TroubleLines ==
    {ChunkLine(tagSEND, payloadPadded, 2, 0),
     ChunkLine(tagSEND, payloadABC, 2, 1),
     ChunkLine(tagSEND, payloadGzHead, 2, 0),
     ChunkLine(tagSEND, payloadGzTail, 2, 1),
     ChunkLine(tagSEND, payloadABC, 3, 0),
     lineNoTotal,
     frameGYRO}

\* Frames shorter than their decoder expects.
ShortFrames == {FrameOf(tagGYRO, 15), FrameOf(tagPOLL, 7)}

ReceiveTrouble ==
    \E line \in TroubleLines :
        /\ calls.deliveries < MaxTroubleCalls
        /\ Receive(line)

\* unpackCommand(data) on a short frame.
UnpackShort ==
    \E data \in ShortFrames :
        /\ readLoop = "running"
        /\ calls.deliveries < MaxTroubleCalls
        /\ Commit(unpackCommand(Handed(World, "telemetry", data), data))
        /\ calls' = [calls EXCEPT !.deliveries = @ + 1]
        /\ UNCHANGED <<currentImageFilename, writer, readLoop, now, written, rt, stream, pos>>

\* The operator asks again for what the 3-chunk image lacks.
RequestStalled ==
    /\ calls.requests < MaxCalls
    /\ MapHas(imageReceptions, ImageId(3))
    /\ requestRetransmission(ImageId(3), Null)

InitTrouble == Loaded /\ stream = <<>>

NextTrouble ==
    \/ Connect
    \/ ReceiveTrouble
    \/ UnpackShort
    \/ RequestStalled
    \/ RetransmitWritten
    \/ DecompressSettle

SpecTrouble == InitTrouble /\ [][NextTrouble]_vars /\ WF_vars(DecompressSettle)

\* The log entries of errors that no handler caught: those of the window's
\* error and unhandledrejection listeners.
Escaped(lg) ==
    {j \in 1..Len(lg) : lg[j].tag \in {"Unhandled Promise Rejection", "Global Error"}}

\* The step hands over the frames, and leaves the bytes, that the framer
\* makes of its buffer and one delivery whatever the handlers' state is.
FramedAlone ==
    \E line \in TroubleLines :
        LET alone == processReceivedData([Fresh EXCEPT !.dataBuffer = dataBuffer],
                                         line, Null, 0)
        IN  /\ frames' = frames \o alone.frames
            /\ dataBuffer' = alone.dataBuffer

\* The step hands one short frame to unpackCommand.
HandedShort ==
    /\ \E data \in ShortFrames : frames' = Append(frames, [kind |-> "telemetry", bytes |-> data])
    /\ dataBuffer' = dataBuffer

\* The read loop keeps running, a delivery is framed as the framer alone
\* frames it, and no other step touches the framer's buffer or hands over a
\* frame.
LoopUntouchedStep ==
    /\ readLoop = "running" => readLoop' = "running"
    /\ IF calls'.deliveries # calls.deliveries
       THEN FramedAlone \/ HandedShort
       ELSE frames' = frames /\ dataBuffer' = dataBuffer

\* Whatever fails, the read loop keeps running and the deliveries that
\* follow are framed and routed as they would have been.
LoopUntouched == [][LoopUntouchedStep]_vars

\* Every kind of failure has been seen in one run and the loop is running.
LoopUntouchedWitness ==
    /\ readLoop = "running"
    /\ Escaped(log) # {}
    /\ \E j \in 1..Len(log) : log[j].tag = "Invalid packet size"
    /\ calls.deliveries = MaxTroubleCalls

\* C20: after a decode-size mismatch, a malformed chunk, a reconstruction
\* failure (a gzip decompression failure included) or the exhaustion of the
\* retransmission budget, no error escapes the handler that hit it, the read
\* loop keeps running and the next delivery is framed and routed as it
\* would have been without the failure.
FailuresContained ==
    /\ [](Escaped(log) = {})
    /\ LoopUntouched

(***************************************************************************)
(* Image chunks in front of other frames, split anywhere                   *)
(***************************************************************************)
\* 'QUJDPOLL': base64 text of the six bytes 41 42 43 3C E2 CB.
payloadWithTag == payloadABC \o tagPOLL

\* A chunk and a text line; a chunk whose base64 text spells a tag; a chunk
\* with a telemetry frame right behind its last digit; a chunk with a text
\* behind it on its line.
ChunkStreams ==
    {ChunkLine(tagSEND, payloadABC, 1, 0) \o textOK,
     ChunkLine(tagSEND, payloadWithTag, 1, 0),
     tagRETX \o payloadABC \o Digits4(2) \o Digits4(1) \o frameGYRO \o <<10>>,
     tagSEND \o payloadABC \o Digits4(1) \o Digits4(0) \o <<32>> \o textOK}

InitChunks == Loaded /\ stream \in ChunkStreams

NextChunks == Connect \/ Deliver

SpecChunks == InitChunks /\ [][NextChunks]_vars

\* The buffer a delivery step starts its loop on.
AtLoopStart == dataBuffer \o Slice(stream, pos, pos')

\* The frames a step hands over.
NewFrames == SubSeq(frames', Len(frames) + 1, Len(frames'))

\* The buffer starts with an image header and has a byte after it.
HasImageFront(buffer) ==
    Len(buffer) >= 5 /\ SubSeq(buffer, 1, 4) \in {tagSEND, tagRETX}

\* The smallest offset from 4 on, within the first 1024 bytes, at which the
\* byte is outside the base64 alphabet or a known identifier begins; -1 if
\* there is none.
ChunkEnd(buffer) ==
    FirstIndex({i \in 4..(Min(Len(buffer), 1024) - 1) :
                   \/ ~IsPacketChar(At(buffer, i))
                   \/ /\ i + 4 <= Len(buffer)
                      /\ Slice(buffer, i, i + 4) \in nextIdentifiers})

\* The offset of the newline that ends a valid chunk at the front of the
\* buffer (tag, base64 text, 8 digits, newline); -1 if there is none.
ValidChunkEnd(buffer) ==
    LET newline == FirstIndex({i \in 0..(Len(buffer) - 1) : IsNewline(At(buffer, i))})
    IN  IF /\ HasImageFront(buffer)
           /\ newline >= 13
           /\ \A i \in 4..(newline - 9) : IsPacketChar(At(buffer, i))
           /\ \A i \in (newline - 8)..(newline - 1) : IsDigit(At(buffer, i))
        THEN newline
        ELSE -1

\* A delivery onto a buffer with an image header hands over, first, the
\* bytes up to the chunk end.
ChunkEndStep ==
    (pos' # pos /\ HasImageFront(AtLoopStart) /\ ChunkEnd(AtLoopStart) # -1) =>
        /\ NewFrames # <<>>
        /\ NewFrames[1] = [kind |-> "image", bytes |-> Slice(AtLoopStart, 0, ChunkEnd(AtLoopStart))]

\* A delivery onto a buffer with a valid chunk in front hands over, first,
\* the chunk from its tag through its last digit.
WholeChunkStep ==
    (pos' # pos /\ ValidChunkEnd(AtLoopStart) # -1) =>
        /\ NewFrames # <<>>
        /\ NewFrames[1] = [kind |-> "image", bytes |-> Slice(AtLoopStart, 0, ValidChunkEnd(AtLoopStart))]

\* C21: the chunk extracted from a buffer of at least 5 bytes that starts
\* with SEND or RETX is the bytes up to the smallest offset >= 4, within the
\* first 1024 bytes, where a byte outside the base64 alphabet stands or a
\* known identifier begins; so a valid chunk followed by a newline reaches
\* processImagePacket whole, from its tag through its last metadata digit.
ChunkEndDetection == [][ChunkEndStep /\ WholeChunkStep]_vars

\* The first half alone: the chunk handed over ends at the chunk end.
ChunkEndScan == [][ChunkEndStep]_vars


\* The chunk at the front of the buffer was ended by the lookahead: at the
\* chunk end, behind the header's first byte, a telemetry tag begins, and
\* the frame under that tag is in the buffer whole.
EndedByTelemetry(buffer) ==
    LET end == ChunkEnd(buffer)
        tag == Slice(buffer, end, end + 4)
    IN  /\ HasImageFront(buffer)
        /\ end > 4
        /\ IsPacketChar(At(buffer, end))
        /\ tag \in binaryIdentifiers \ {tagRETX}
        /\ getPacketSize(tag, SliceFrom(buffer, end)) > 0
        /\ Len(buffer) >= end + getPacketSize(tag, SliceFrom(buffer, end))

\* The telemetry frame that begins at the chunk end.
FrameAtEnd(buffer) ==
    LET end == ChunkEnd(buffer)
    IN  Slice(buffer, end, end + getPacketSize(Slice(buffer, end, end + 4),
                                               SliceFrom(buffer, end)))

\* A delivery onto a buffer whose chunk is ended by a telemetry frame hands
\* over the chunk and then that frame.
LookaheadStep ==
    (pos' # pos /\ EndedByTelemetry(AtLoopStart)) =>
        /\ Len(NewFrames) >= 2
        /\ NewFrames[2] = [kind |-> "telemetry", bytes |-> FrameAtEnd(AtLoopStart)]

\* C22: the bytes dropped behind an extracted chunk up to the next newline
\* never include a frame: when the chunk was ended by the next-identifier
\* lookahead, the frame that begins at the chunk end is extracted by a later
\* iteration and reaches its handler.
SkipKeepsFrames == [][LookaheadStep]_vars

\* The same for a buffer without a newline behind the chunk end, where the
\* skip drops nothing.
SkipWithoutNewline ==
    [][(/\ pos' # pos
        /\ EndedByTelemetry(AtLoopStart)
        /\ \A i \in ChunkEnd(AtLoopStart)..(Len(AtLoopStart) - 1) :
               ~IsNewline(At(AtLoopStart, i)))
       => LookaheadStep]_vars

\* The chunk and the telemetry frame behind it have both been handed over.
SkipWithoutNewlineWitness ==
    /\ Len(frames) = 2
    /\ frames[1].kind = "image"
    /\ frames[2] = [kind |-> "telemetry", bytes |-> frameGYRO]


(***************************************************************************)
(* Image headers in front of more than 1024 bytes                          *)
(***************************************************************************)
\* A SEND and a RETX line of 1025 base64 characters, 'SENDxxxx' without a
\* newline, and a SEND header with 1030 characters and no newline.
LongStreams ==
    {tagSEND \o Filler(1021) \o <<10>> \o textOK,
     tagRETX \o Filler(1021) \o <<10>>,
     tagSEND \o Filler(4),
     tagSEND \o Filler(1030)}

\* The sizes of what one read gives.
PieceSizes == {1, 4, 8, 512, 1026, 1034}

\* reader.read() gives the next bytes of the stream, a piece of one of the
\* sizes.
DeliverPiece ==
    \E n \in PieceSizes :
        /\ readLoop = "running"
        /\ n <= Len(stream) - pos
        /\ calls.deliveries < MaxDeliveries
        /\ Commit(processReceivedData(World, Slice(stream, pos, pos + n),
                                      currentImageFilename, now))
        /\ pos' = pos + n
        /\ calls' = [calls EXCEPT !.deliveries = @ + 1]
        /\ UNCHANGED <<currentImageFilename, writer, readLoop, now, written, rt, stream>>

InitLong == Loaded /\ stream \in LongStreams

NextLong == Connect \/ DeliverPiece

SpecLong == InitLong /\ [][NextLong]_vars

\* The offset of the first newline behind the header, or -1.
NewlineBehindHeader(buffer) ==
    FirstIndex({i \in 4..(Len(buffer) - 1) : IsNewline(At(buffer, i))})

\* A delivery onto a buffer with an image header and no chunk end in the
\* window hands over, first, the bytes before the newline as an image
\* chunk if there is a newline, and the whole buffer as an image chunk if
\* there is none and the buffer is under 1024 bytes, and only then.
FallbackStep ==
    (pos' # pos /\ HasImageFront(AtLoopStart) /\ ChunkEnd(AtLoopStart) = -1) =>
        IF NewlineBehindHeader(AtLoopStart) # -1
        THEN /\ NewFrames # <<>>
             /\ NewFrames[1] = [kind  |-> "image",
                                bytes |-> Slice(AtLoopStart, 0, NewlineBehindHeader(AtLoopStart))]
        ELSE IF Len(AtLoopStart) < 1024
        THEN /\ NewFrames # <<>>
             /\ NewFrames[1] = [kind |-> "image", bytes |-> AtLoopStart]
        ELSE \A n \in 1..Len(NewFrames) : NewFrames[n].bytes # AtLoopStart

\* C23: when a buffer that starts with SEND or RETX has no chunk terminator
\* within the 1024-byte window, the bytes before the next newline, if there
\* is one, are extracted as an image chunk and not as a text line; only
\* when there is no newline and the buffer is under 1024 bytes is the whole
\* buffer taken as the chunk.
NewlineFallback == [][FallbackStep]_vars

\* The same for buffers under 1024 bytes, which have no newline when they
\* have no chunk end.
FallbackUnderWindow == [][Len(AtLoopStart) < 1024 => FallbackStep]_vars


(***************************************************************************)
(* Text lines with blanks, carriage returns and empty lines                *)
(***************************************************************************)
\* ' OK \r\n\r\nhi\n', '\n\nA\rB\n', 'hi\n' + GYRO frame, '  \nup\n\r',
\* 'hi\r' + an image chunk
TextStreams ==
    {<<32, 79, 75, 32, 13, 10, 13, 10, 104, 105, 10>>,
     <<10, 10, 65, 13, 66, 10>>,
     <<104, 105, 10>> \o frameGYRO,
     <<32, 32, 10, 117, 112, 10, 13>>,
     <<104, 105, 13>> \o ChunkLine(tagSEND, payloadABC, 1, 0)}

InitText == Loaded /\ stream \in TextStreams

NextText == Connect \/ Deliver

SpecText == InitText /\ [][NextText]_vars

\* The buffer starts with an image header or a telemetry tag.
HasFrameFront(buffer) ==
    Len(buffer) >= 4 /\ TextField(buffer, 0, 4) \in {tagSEND, tagRETX} \cup binaryIdentifiers

\* The offset of the first newline or carriage return, or -1.
FirstTerminator(buffer) ==
    FirstIndex({i \in 0..(Len(buffer) - 1) : IsNewline(At(buffer, i))})

\* The bytes behind the first terminator and the newline and carriage-return
\* bytes that directly follow it.
BehindLine(buffer) ==
    LET rest == SliceFrom(buffer, FirstTerminator(buffer) + 1)
        kept == FirstIndex({i \in 0..(Len(rest) - 1) : ~IsNewline(At(rest, i))})
    IN  IF kept = -1 THEN <<>> ELSE SliceFrom(rest, kept)

\* What the framer makes of the bytes alone, started on an empty buffer.
FramedFrom(bytes) == processReceivedData(Fresh, bytes, Null, 0)

\* A delivery onto a buffer with a text line in front hands over the trimmed
\* text before the first terminator if and only if it is not empty, and
\* goes on with the bytes behind the line as they are.
TextLineStep ==
    (pos' # pos /\ ~HasFrameFront(AtLoopStart) /\ FirstTerminator(AtLoopStart) # -1) =>
        LET line == Trim(TextDecode(Slice(AtLoopStart, 0, FirstTerminator(AtLoopStart))))
            rest == FramedFrom(BehindLine(AtLoopStart))
        IN  /\ NewFrames = (IF line # <<>> THEN <<[kind |-> "text", bytes |-> line]>>
                            ELSE <<>>) \o rest.frames
            /\ dataBuffer' = rest.dataBuffer

\* C24: when the buffer front matches no image header or telemetry tag and
\* the buffer holds a newline or carriage return, one iteration gives the
\* trimmed text before the first such byte to processTextLine if and only
\* if it is not empty, and removes that text, the terminator and every
\* newline or carriage-return byte directly behind it, leaving the later
\* bytes in order.
TextLineExtraction == [][TextLineStep]_vars

\* From ' OK \r\n\r\nhi\n' delivered up to its 'h', the line OK has been
\* handed over trimmed, the empty lines dropped, and 'h' is left.
TextLineExtractionWitness ==
    /\ frames = <<[kind |-> "text", bytes |-> <<79, 75>>]>>
    /\ dataBuffer = <<104>>
    /\ pos = 9


(***************************************************************************)
(* POLL frames cut inside their header                                     *)
(***************************************************************************)
\* POLL frames that declare 3, 10 (0x0A) and 13 (0x0D) payload bytes, the
\* payload bytes being 65 each.
HeaderStreams ==
    {tagPOLL \o LE32(n) \o [i \in 1..n |-> 65] : n \in {3, 10, 13}}

InitHeader == Loaded /\ stream \in HeaderStreams

NextHeader == Connect \/ Deliver

SpecHeader == InitHeader /\ [][NextHeader]_vars

\* The buffer is the POLL tag and fewer than four bytes of the length.
IsPollHead(buffer) ==
    Len(buffer) \in 4..7 /\ SubSeq(buffer, 1, 4) = tagPOLL

\* A delivery that leaves the framer with 4 to 7 bytes of a POLL frame
\* removes nothing and hands over nothing.
PollHeadStep ==
    (pos' # pos /\ IsPollHead(AtLoopStart)) =>
        /\ dataBuffer' = AtLoopStart
        /\ NewFrames = <<>>

\* C25: when the buffer starts with the POLL tag and holds only 4 to 7
\* bytes, processReceivedData consumes nothing and emits nothing, whatever
\* the bytes of the length field already there are, 0x0A and 0x0D included.
PollHeadWaits == [][PollHeadStep]_vars

\* The same when none of the bytes there is 0x0A or 0x0D.
PollHeadWaitsWithoutNewline ==
    [][(\A i \in 1..Len(AtLoopStart) : ~IsNewline(AtLoopStart[i])) => PollHeadStep]_vars


(***************************************************************************)
(* Retransmitted chunks cut anywhere                                       *)
(***************************************************************************)
\* A retransmitted chunk alone, and one between two text lines.
RetxStreams ==
    {ChunkLine(tagRETX, payloadABC, 2, 1),
     textOK \o ChunkLine(tagRETX, payloadPadded, 2, 0) \o textOK}

InitRetxCut == Loaded /\ stream \in RetxStreams

NextRetxCut == Connect \/ Deliver

SpecRetxCut == InitRetxCut /\ [][NextRetxCut]_vars

\* The first frame the step hands over went to unpackCommand under RETX.
EchoTaken ==
    /\ NewFrames # <<>>
    /\ NewFrames[1].kind = "telemetry"
    /\ SubSeq(NewFrames[1].bytes, 1, 4) = tagRETX

\* A delivery that leaves the framer with the four bytes 'RETX' removes
\* nothing and hands over nothing, and a delivery hands a unit under RETX to
\* unpackCommand only if the buffer has an image header and no chunk end.
RetxStep ==
    pos' # pos =>
        /\ AtLoopStart = tagRETX => (dataBuffer' = AtLoopStart /\ NewFrames = <<>>)
        /\ EchoTaken => (HasImageFront(AtLoopStart) /\ ChunkEnd(AtLoopStart) = -1)

\* C26: a unit that begins with RETX is not consumed by the retransmit-echo
\* path of the telemetry branch while the image branch could still frame
\* it: a buffer of exactly the 4 bytes 'RETX' is left untouched until more
\* bytes arrive, and the echo path is taken only when the chunk detection
\* has found no chunk end.
RetxPriority == [][RetxStep]_vars

\* The same for buffers that hold more than the tag.
RetxPriorityBeyondTag == [][AtLoopStart # tagRETX => RetxStep]_vars


(***************************************************************************)
(* Images of two sizes, one after another                                  *)
(***************************************************************************)
MaxTotalLines == 4

\* The two chunks of the empty gzip stream as a 2-chunk image, and chunks
\* 0 and 2 of a 3-chunk image.
TotalLines ==
    {ChunkLine(tagSEND, payloadGzHead, 2, 0),
     ChunkLine(tagSEND, payloadGzTail, 2, 1),
     ChunkLine(tagSEND, payloadABC, 3, 0),
     ChunkLine(tagRETX, payloadABC, 3, 2)}

ReceiveTotals ==
    \E line \in TotalLines :
        /\ calls.deliveries < MaxTotalLines
        /\ Receive(line)

InitTotals == Loaded /\ stream = <<>>

NextTotals == Connect \/ ReceiveTotals \/ Clock \/ DecompressSettle

SpecTotals == InitTotals /\ [][NextTotals]_vars /\ WF_vars(DecompressSettle)

\* The entries of the table with the total.
WithTotal(receptions, total) ==
    {i \in 1..Len(receptions) : receptions[i].v.totalChunks = total}

\* A step that hands over a chunk of a total the table knows creates
\* nothing and stores the index in the reception of that total; a chunk of
\* a total the table does not know creates one reception, of that total.
RoutedStep ==
    (Len(frames') = Len(frames) + 1 /\ frames'[Len(frames')].kind = "image") =>
        LET total == ChunkTotal(frames'[Len(frames')].bytes)
            index == ChunkIndex(frames'[Len(frames')].bytes)
        IN  /\ Cardinality(WithTotal(imageReceptions', total)) = 1
            /\ \A i \in WithTotal(imageReceptions', total) :
                   index \in imageReceptions'[i].v.receivedChunks
            /\ IF WithTotal(imageReceptions, total) # {}
               THEN /\ Len(imageReceptions') = Len(imageReceptions)
                    /\ \A i \in 1..Len(imageReceptions) :
                           imageReceptions'[i].k = imageReceptions[i].k
               ELSE Len(imageReceptions') = Len(imageReceptions) + 1

\* C27: chunks that declare the same total are routed to the same
\* reception: no two entries of imageReceptions have the same totalChunks,
\* and a reception is created only when no entry of that total exists, also
\* after the one before was removed.
OneReceptionPerTotal ==
    /\ [](\A i, j \in 1..Len(imageReceptions) :
              imageReceptions[i].v.totalChunks = imageReceptions[j].v.totalChunks => i = j)
    /\ [][RoutedStep]_vars

\* A 2-chunk image was completed and removed, a second reception of total 2
\* was created after it, and a reception of total 3 stands beside it.
OneReceptionPerTotalWitness ==
    /\ \E n \in 1..Len(log) : log[n].tag = "Image reception cleanup completed"
    /\ WithTotal(imageReceptions, 2) # {}
    /\ WithTotal(imageReceptions, 3) # {}


(***************************************************************************)
(* Halved commands and the order of a call's commands                      *)
(***************************************************************************)
\* The step writes a command of the call in flight.
WritesCommand ==
    /\ Len(written') = Len(written) + 1
    /\ written'[Len(written')].call > 0

\* The indices of the command the step writes.
IndicesSent == IndicesOf(written'[Len(written')].data)

\* The position in the call's list behind the batch of the command the step
\* writes, or behind the indices sent when the command was halved: where the
\* loop goes on.
GoesOnAt == rt'.i + rt'.perCommand

\* The position in the call's list of the first index the step writes.
StartsAt == IF rt'.safe THEN GoesOnAt - Len(IndicesSent) ELSE rt'.i

\* The position in the call's list where the loop stood before the step: 0
\* when the step is the call, else behind the command written before.
StoodAt == IF calls'.requests # calls.requests THEN 0 ELSE rt.i + rt.perCommand

\* The step reports a batch that does not fit even when halved.
ReportsNoFit ==
    \E n \in (Len(log) + 1)..Len(log') : log'[n].tag = "Cannot fit retransmit command"

\* The step reports a command that is too long.
ReportsTooLong ==
    \E n \in (Len(log) + 1)..Len(log') : log'[n].tag = "Command too long"

\* A halved command carries the first half (at least one) of its batch,
\* fits in 60 bytes, and the loop goes on right behind its last index.
HalvedStep ==
    (WritesCommand /\ rt'.safe) =>
        LET batch == Slice(rt'.missing, StartsAt,
                           Min(StartsAt + rt'.perCommand, Len(rt'.missing)))
        IN  /\ ReportsTooLong
            /\ Len(IndicesSent) = Max(1, Len(batch) \div 2)
            /\ IndicesSent = Slice(batch, 0, Len(IndicesSent))
            /\ Len(written'[Len(written')].data) <= 60

\* Every command begins at the index where the loop stood and carries the
\* indices up to where the loop goes on, unless the step reports batches
\* that do not fit and begins behind them.
NothingLeftOutStep ==
    WritesCommand =>
        /\ IndicesSent = Slice(rt'.missing, StartsAt, Min(GoesOnAt, Len(rt'.missing)))
        /\ IF ReportsNoFit THEN StartsAt > StoodAt ELSE StartsAt = StoodAt

\* C28 as stated: a call in which a command was too long has, at its end,
\* asked for every index of its list.
HalvingSkipsNothing ==
    (rt.pc = "done" /\ \E n \in 1..Len(log) : log[n].tag = "Command too long") =>
        IndicesWritten(rt.call) = rt.missing

\* C28, amended: a command that exceeds the budget is cut to the first half
\* of its indices (at least one) and checked again before it is sent, and
\* the next command of the call begins with the first index left out; only
\* a batch whose halved command still exceeds the budget is reported and
\* passed over.
HalvingKeepsIndices == [][HalvedStep /\ NothingLeftOutStep]_vars

\* A call with the list of six 7-digit indices has ended after three halved
\* commands that carry all six.
HalvingKeepsIndicesWitness ==
    /\ rt.pc = "done"
    /\ rt.missing = givenList
    /\ Len(CallLines(rt.call)) = 3
    /\ IndicesWritten(rt.call) = givenList
    /\ \E n \in 1..Len(log) : log[n].tag = "Command too long"


\* The step writes one more command of a call that has written before.
WritesAgain ==
    /\ WritesCommand
    /\ calls'.requests = calls.requests
    /\ CallLines(rt.call) # <<>>

\* The step reports the end of the call.
ReportsComplete ==
    \E n \in (Len(log) + 1)..Len(log') : log'[n].tag = "Retransmission request complete"

\* A command is written only when no write of the call is pending, and a
\* further one only by the continuation of a delay that was started at
\* least 2 s before, with a first index above the one of the command before.
OneAfterAnotherStep ==
    /\ WritesCommand => rt.pc # "awaitWrite"
    /\ WritesAgain =>
           /\ rt.pc = "awaitDelay"
           /\ now >= rt.wake
           /\ IndicesSent[1] >
                  IndicesOf(CallLines(rt.call)[Len(CallLines(rt.call))].data)[1]

\* The delay begins when a write has resolved and lasts 2 s from then; its
\* end does not move while the call waits, and the clock does not go back.
DelayStep ==
    /\ (rt'.pc = "awaitDelay" /\ rt.pc # "awaitDelay") =>
           rt.pc = "awaitWrite" /\ rt'.wake = now + 2000
    /\ (rt'.pc = "awaitDelay" /\ rt.pc = "awaitDelay") => rt'.wake = rt.wake
    /\ now' >= now

\* The end of the call is reported by a step that writes nothing, when the
\* loop stands behind the list and no write is pending; a call that has
\* ended writes no more.
CompleteStep ==
    /\ ReportsComplete =>
           /\ written' = written
           /\ rt'.pc = "done"
           /\ rt'.i >= Len(rt'.missing)
    /\ (rt'.pc = "done" /\ rt.pc # "done") => ReportsComplete
    /\ (rt.pc = "done" /\ WritesCommand) => calls'.requests # calls.requests

\* C29: the commands of one call are written one after another with
\* ascending first indices, every two consecutive writes of a call are
\* separated by a 2 s delay, and the call reports its end only after its
\* last command has been written.
BatchOrdering == [][OneAfterAnotherStep /\ DelayStep /\ CompleteStep]_vars

\* A call for a known reception has ended after two whole commands, the
\* second written when 2 s had passed.
BatchOrderingWitness ==
    /\ rt.pc = "done"
    /\ rt.known
    /\ ~rt.safe
    /\ Len(CallLines(rt.call)) = 2
    /\ now >= 2000
    /\ log[Len(log)].tag = "Retransmission request complete"


(***************************************************************************)
(* Scans over a stall that lasts                                           *)
(***************************************************************************)
MaxStallLines == 2

MaxStallIntervals == 9

\* Five seconds pass between two callbacks of the interval, for as long as
\* two reports of one stall take.
StallHalfInterval ==
    /\ now % 10000 = 0
    /\ now < MaxStallIntervals * 10000
    /\ Tick(5000)

\* The first chunk of a 2-chunk image, the first and the last of a 3-chunk
\* image.
StallLines ==
    {ChunkLine(tagSEND, payloadPadded, 2, 0),
     ChunkLine(tagSEND, payloadPadded, 3, 0),
     ChunkLine(tagSEND, payloadPadded, 3, 2)}

ReceiveStalling ==
    \E line \in StallLines :
        /\ calls.deliveries < MaxStallLines
        /\ Receive(line)

InitStall == Loaded /\ stream = <<>>

NextStall == Connect \/ ReceiveStalling \/ StallHalfInterval \/ TimeoutScan

SpecStall == InitStall /\ [][NextStall]_vars

\* The step adds a timeout line under the id of the i-th reception.
ReportedNow(i) ==
    \E j \in TimeoutLines :
        SubSeq(log'[j].data, 1, Len(imageReceptions[i].k)) = imageReceptions[i].k

\* The number of timeout lines in the log under the id of the i-th reception.
Reports(i) ==
    Cardinality({j \in 1..Len(log) :
                    /\ log[j].tag = "Image timeout"
                    /\ SubSeq(log[j].data, 1, Len(imageReceptions[i].k)) = imageReceptions[i].k})

\* A scan that reports a reception sets its last-activity time to the time
\* of the scan.
RefreshStep ==
    \A i \in 1..Len(imageReceptions) :
        ReportedNow(i) =>
            /\ now' # now /\ now' % 10000 = 0
            /\ imageReceptions'[i].k = imageReceptions[i].k
            /\ imageReceptions'[i].v.lastPacketTime = now'

\* While no chunk arrives, only a report changes a last-activity time.
QuietStep ==
    calls'.deliveries = calls.deliveries =>
        /\ Len(imageReceptions') = Len(imageReceptions)
        /\ \A i \in 1..Len(imageReceptions) :
               imageReceptions'[i].v.lastPacketTime # imageReceptions[i].v.lastPacketTime
                   => ReportedNow(i)

\* A scan does not report a reception whose last-activity time is at most
\* 30 s old, and reports one with missing indexes whose last-activity time is
\* older.
AgainStep ==
    (now' # now /\ now' % 10000 = 0) =>
        \A i \in 1..Len(imageReceptions) :
            /\ now' - imageReceptions[i].v.lastPacketTime <= 30000 => ~ReportedNow(i)
            /\ (/\ now' - imageReceptions[i].v.lastPacketTime > 30000
                /\ imageReceptions[i].v.receivedChunks
                       # 0..(imageReceptions[i].v.totalChunks - 1)) => ReportedNow(i)

\* With scans every 10 s, the n-th report of a reception comes no earlier
\* than 40 s after the one before, the first no earlier than at 40 s.
ReportsApart ==
    \A i \in 1..Len(imageReceptions) : Reports(i) * 40000 <= now

\* C30: a scan that reports a stalled reception sets its last-activity time
\* to the scan time; with no new chunk the reception is not reported by the
\* scans of the following 30 s and is reported again by the first scan more
\* than 30 s after the report.
NoRepeatedReports == [][RefreshStep /\ QuietStep /\ AgainStep]_vars /\ []ReportsApart

\* A reception whose only chunks came in the first 5 s has been reported by
\* the scans at 40 s and at 80 s and by no other.
NoRepeatedReportsWitness ==
    /\ now = 80000
    /\ \E i \in 1..Len(imageReceptions) :
           /\ Reports(i) = 2
           /\ imageReceptions[i].v.lastPacketTime = 80000


(***************************************************************************)
(* The reception table under every operation                               *)
(***************************************************************************)
MaxTableCalls == 3

\* The chunks of a 2-chunk image that is the empty gzip stream, a first
\* chunk that is no base64 ('Q=QQ'), and chunks 0 and 2 of a 3-chunk image.
TableLines ==
    {ChunkLine(tagSEND, payloadGzHead, 2, 0),
     ChunkLine(tagSEND, payloadInnerPad, 2, 0),
     ChunkLine(tagSEND, payloadGzTail, 2, 1),
     ChunkLine(tagSEND, payloadABC, 3, 0),
     ChunkLine(tagRETX, payloadABC, 3, 2)}

TableCalls == calls.deliveries + calls.clears + calls.requests

\* Between two scans the port delivers a chunk, the operator clears the
\* image buffers or asks again for what a reception lacks.
OperateTable ==
    /\ TableCalls < MaxTableCalls
    /\ now % 10000 = 5000
    /\ \/ \E line \in TableLines : Receive(line)
       \/ clearImageBuffers
       \/ \E imageId \in MapKeys(imageReceptions) : requestRetransmission(imageId, Null)

InitTable == Loaded /\ stream = <<>>

NextTable ==
    \/ Connect
    \/ OperateTable
    \/ DecompressSettle
    \/ HalfInterval
    \/ TimeoutScan
    \/ RetransmitWritten

SpecTable == InitTable /\ [][NextTable]_vars /\ WF_vars(DecompressSettle)

\* C31: imageReceptions and imagePacketBuffer have the same keys, and the
\* received set of every reception is the key set of its chunk store, lies
\* in 0..total-1 and has at most total elements.
TableConsistent ==
    /\ MapKeys(imageReceptions) = MapKeys(imagePacketBuffer)
    /\ Len(imageReceptions) = Len(imagePacketBuffer)
    /\ \A id \in MapKeys(imageReceptions) :
           LET imageInfo == MapGet(imageReceptions, id)
           IN  /\ imageInfo.receivedChunks = MapKeys(MapGet(imagePacketBuffer, id))
               /\ imageInfo.receivedChunks \subseteq 0..(imageInfo.totalChunks - 1)
               /\ Cardinality(imageInfo.receivedChunks) <= imageInfo.totalChunks

\* After a clear, the first chunk of a 3-chunk image and a request for the
\* rest, a scan has reported the reception.
TableConsistentWitness ==
    /\ calls.clears = 1
    /\ calls.requests = 1
    /\ \E n \in 1..Len(log) : log[n].tag = "Image timeout"
    /\ \E id \in MapKeys(imageReceptions) :
           /\ MapGet(imageReceptions, id).receivedChunks = {0}
           /\ MapGet(imageReceptions, id).retransmitAttempts = 1

(***************************************************************************)
(* The iterations of the classifier loop                                   *)
(***************************************************************************)
\* 'SEND' in front of a newline and a text line.
lineSendBare == tagSEND \o <<10, 104, 105, 10>>

\* Streams for every branch of the loop: text lines, image chunks, POLL and
\* fixed-size frames, retransmitted chunks, and more than 1024 bytes behind
\* an image header.
LoopStreams ==
    TextStreams \cup ChunkStreams \cup RetxStreams \cup HeaderStreams \cup LongStreams
        \cup {lineSendBare, textOK \o frameGYRO \o textOK}

\* The sizes of what one read gives, besides the rest of the stream.
SomeSizes == {1, 2, 5, 8, 270, 1026}

\* reader.read() gives the next bytes of the stream: a piece of one of the
\* sizes, or all that is left.
DeliverSome ==
    \E n \in SomeSizes \cup {Len(stream) - pos} :
        /\ readLoop = "running"
        /\ n \in 1..(Len(stream) - pos)
        /\ calls.deliveries < MaxDeliveries
        /\ Commit(processReceivedData(World, Slice(stream, pos, pos + n),
                                      currentImageFilename, now))
        /\ pos' = pos + n
        /\ calls' = [calls EXCEPT !.deliveries = @ + 1]
        /\ UNCHANGED <<currentImageFilename, writer, readLoop, now, written, rt, stream>>

InitLoop == Loaded /\ stream \in LoopStreams

NextLoop == Connect \/ DeliverSome

SpecLoop == InitLoop /\ [][NextLoop]_vars

\* The lengths of dataBuffer at the start of each iteration of the while
\* loop run from w, the last being the iteration that stops it; followed
\* for at most fuel iterations.
RECURSIVE IterationLengths(_, _, _, _)
IterationLengths(w, filename, t, fuel) ==
    IF Len(w.dataBuffer) = 0 \/ fuel = 0 THEN <<>>
    ELSE LET step == ClassifyStep(w, filename, t)
         IN  <<Len(w.dataBuffer)>>
                 \o (IF step.again THEN IterationLengths(step.w, filename, t, fuel - 1)
                     ELSE <<>>)

\* The iterations of the loop that the step runs.
StepIterations ==
    IterationLengths([World EXCEPT !.dataBuffer = AtLoopStart], currentImageFilename, now,
                     Len(AtLoopStart) + 1)

\* Every iteration but the last begins with more bytes than the next, and
\* there are no more iterations than bytes.
DescendingStep ==
    pos' # pos =>
        /\ \A k \in 1..(Len(StepIterations) - 1) : StepIterations[k] > StepIterations[k + 1]
        /\ Len(StepIterations) <= Len(AtLoopStart)

\* C32: each iteration of the loop of processReceivedData stops the loop or
\* leaves dataBuffer shorter, so that a call runs at most one iteration for
\* each byte it starts with.
LoopTerminates == [][DescendingStep]_vars

\* Blank lines, a carriage return between two texts and a line have been
\* taken in one call of three iterations.
LoopTerminatesWitness ==
    /\ stream = <<10, 10, 65, 13, 66, 10>>
    /\ pos = Len(stream)
    /\ calls.deliveries = 1
    /\ dataBuffer = <<>>
    /\ Len(frames) = 2


\* The ids of the receptions that hold every chunk of their total.
FullReceptions ==
    {id \in MapKeys(imageReceptions) :
        Cardinality(MapGet(imageReceptions, id).receivedChunks)
            = MapGet(imageReceptions, id).totalChunks}

\* The step hands processImagePacket a chunk frame that declares the total.
ChunkOfTotal(total) ==
    /\ NewFrames # <<>>
    /\ NewFrames[1].kind = "image"
    /\ ChunkTotal(NewFrames[1].bytes) = total

\* The step starts a completion, or adds a timeout line, under the id.
CompletesOrReports(id) ==
    \/ \E n \in (Len(completions) + 1)..Len(completions') : completions'[n].imageId = id
    \/ \E n \in (Len(log) + 1)..Len(log') :
           /\ log'[n].tag = "Image timeout"
           /\ SubSeq(log'[n].data, 1, Len(id)) = id

\* The step is the cleanup of a decompression started under the id.
CleansUp(id) ==
    \E n \in (Len(log) + 1)..Len(log') :
        log'[n].tag = "Image reception cleanup completed" /\ log'[n].data = id

\* A full reception is left by every step as it is, with its chunk store,
\* or removed; no step completes or reports it, and a chunk frame of its
\* total changes neither the table nor the log.
BlockedStep ==
    \A id \in FullReceptions :
        /\ \/ /\ MapHas(imageReceptions', id)
              /\ MapGet(imageReceptions', id) = MapGet(imageReceptions, id)
              /\ MapGet(imagePacketBuffer', id) = MapGet(imagePacketBuffer, id)
           \/ ~MapHas(imageReceptions', id)
        /\ ~CompletesOrReports(id)
        /\ ChunkOfTotal(MapGet(imageReceptions, id).totalChunks) =>
               /\ imageReceptions' = imageReceptions
               /\ imagePacketBuffer' = imagePacketBuffer
               /\ pending' = pending
               /\ log' = log

\* A full reception is removed by clearImageBuffers only.
ClearedOnlyStep ==
    \A id \in FullReceptions :
        ~MapHas(imageReceptions', id) => calls'.clears # calls.clears

\* A full reception is removed by clearImageBuffers or by the cleanup of a
\* decompression started under its id.
RemovedStep ==
    \A id \in FullReceptions :
        ~MapHas(imageReceptions', id) => (calls'.clears # calls.clears \/ CleansUp(id))

\* C33 as stated: a full reception that stays in the table drops every
\* later chunk frame of its total, is not completed again, is not reported
\* by the scan, and only clearImageBuffers removes it.
FullBlocksTotal == [][BlockedStep /\ ClearedOnlyStep]_vars

\* C33, amended: a full reception that stays in the table drops every later
\* chunk frame of its total, is not completed again and is not reported by
\* the scan; it is removed by clearImageBuffers or by the cleanup of a
\* decompression that was started under its identifier.
FullBlocksUntilRemoved == [][BlockedStep /\ RemovedStep]_vars

\* A 2-chunk reception whose text is no base64 is full and in the table at
\* 40 s, after a third chunk frame of total 2 and the scans.
FullBlocksUntilRemovedWitness ==
    /\ now = 40000
    /\ calls.deliveries = 3
    /\ Len(frames) = 3
    /\ ImageId(2) \in FullReceptions
    /\ pending = <<>>
    /\ \E n \in 1..Len(completions) : completions[n].outcome = "invalidBase64"


(***************************************************************************)
(* Chunks that arrive while a retransmission call waits                    *)
(***************************************************************************)
InitRace == Loaded /\ stream = <<>>

NextRace ==
    \/ Connect
    \/ SendImage
    \/ ReceiveMost
    \/ ReceiveRetransmitted
    \/ RequestAgain
    \/ RetransmitWritten
    \/ Sleep
    \/ RetransmitWoken

SpecRace == InitRace /\ [][NextRace]_vars

\* The received set of the reception the call in flight is for, after the
\* step.
ReceivedThen == MapGet(imageReceptions', rt'.imageId).receivedChunks

\* The indices of a command are not in the received set when it is written,
\* and the reception is not full.
StillMissingStep ==
    (WritesCommand /\ MapHas(imageReceptions', rt'.imageId)) =>
        /\ \A k \in 1..Len(IndicesSent) : IndicesSent[k] \notin ReceivedThen
        /\ Cardinality(ReceivedThen) < MapGet(imageReceptions', rt'.imageId).totalChunks

\* C34: whatever chunks arrive while a call waits between its commands,
\* each index of a command is absent from the received set when the command
\* is written, and no command is written for a reception that is complete.
OnlyStillMissing == [][StillMissingStep]_vars

\* The indices of every command were missing when the call was made: they
\* are in the list computed at the call, and those of the command written by
\* the call itself are still missing then.
MissingAtCallStep ==
    (WritesCommand /\ MapHas(imageReceptions', rt'.imageId)) =>
        /\ \A k \in 1..Len(IndicesSent) :
               \E m \in 1..Len(rt'.missing) : rt'.missing[m] = IndicesSent[k]
        /\ calls'.requests # calls.requests => StillMissingStep

OnlyMissingAtCall == [][MissingAtCallStep]_vars

\* Chunk 7 has arrived while the call waited, and the call has asked for it.
OnlyMissingAtCallWitness ==
    /\ rt.pc = "done"
    /\ Len(CallLines(rt.call)) = 2
    /\ MapHas(imageReceptions, rt.imageId)
    /\ 7 \in MapGet(imageReceptions, rt.imageId).receivedChunks
    /\ IndicesWritten(rt.call) = <<2, 7>>
    /\ calls.requests = 1


(***************************************************************************)
(* A new image of the same total before the cleanup of the last            *)
(***************************************************************************)
MaxAnewCalls == 4

\* The two chunks of the empty gzip stream as a 2-chunk image, and the
\* first chunk of another 2-chunk image.
AnewLines ==
    {ChunkLine(tagSEND, payloadGzHead, 2, 0),
     ChunkLine(tagSEND, payloadGzTail, 2, 1),
     ChunkLine(tagSEND, payloadPadded, 2, 0)}

\* The port delivers a chunk, or the operator clears the image buffers.
OperateAnew ==
    /\ calls.deliveries + calls.clears < MaxAnewCalls
    /\ \/ \E line \in AnewLines : Receive(line)
       \/ clearImageBuffers

InitAnew == Loaded /\ stream = <<>>

NextAnew == Connect \/ OperateAnew \/ DecompressSettle

SpecAnew == InitAnew /\ [][NextAnew]_vars /\ WF_vars(DecompressSettle)

\* A decompression started under the total's id has not settled.
CleanupPending(total) == \E n \in 1..Len(pending) : pending[n].imageId = ImageId(total)

\* The reception that a cleanup removes is full: it is the one whose
\* completion started the decompression.
OwnReceptionStep ==
    \A id \in MapKeys(imageReceptions) : CleansUp(id) => id \in FullReceptions

\* The text of a chunk frame that arrives while the cleanup for its total is
\* pending is in the chunk store, under its index, after the step.
NewChunkKeptStep ==
    (/\ NewFrames # <<>>
     /\ NewFrames[1].kind = "image"
     /\ CleanupPending(ChunkTotal(NewFrames[1].bytes))) =>
        \E id \in MapKeys(imagePacketBuffer') :
            /\ MapGet(imageReceptions', id).totalChunks = ChunkTotal(NewFrames[1].bytes)
            /\ MapHas(MapGet(imagePacketBuffer', id), ChunkIndex(NewFrames[1].bytes))
            /\ MapGet(MapGet(imagePacketBuffer', id), ChunkIndex(NewFrames[1].bytes))
                   = ChunkText(NewFrames[1].bytes)

\* C35: the cleanup of a finished decompression removes the reception whose
\* completion started it and never one created later under the same id, and
\* chunks of a new image of the same total that arrive before the cleanup
\* are not lost.
CleanupRemovesOwn == [][OwnReceptionStep /\ NewChunkKeptStep]_vars

\* The two halves of C35, each alone.
CleanupOfOwnReception == [][OwnReceptionStep]_vars

NewChunksKept == [][NewChunkKeptStep]_vars

\* The cleanup removes what the table holds under the id of the completion,
\* with its chunk store, and nothing else.
CleanupByIdStep ==
    \A n \in 1..Len(pending) :
        CleansUp(pending[n].imageId) =>
            /\ imageReceptions' = MapDelete(imageReceptions, pending[n].imageId)
            /\ imagePacketBuffer' = MapDelete(imagePacketBuffer, pending[n].imageId)

CleanupById == [][CleanupByIdStep]_vars

\* The cleanup of the first image has run after a clear and the first chunk
\* of the next image.
CleanupByIdWitness ==
    /\ calls.clears = 1
    /\ calls.deliveries = 3
    /\ pending = <<>>
    /\ imageReceptions = <<>>
    /\ \E n \in 1..Len(log) : log[n].tag = "Image reception cleanup completed"
    /\ frames[Len(frames)].bytes = tagSEND \o payloadPadded \o Digits4(2) \o Digits4(0)


(***************************************************************************)
(* POLL payloads that bring the accumulator above 64 bytes                 *)
(***************************************************************************)
\* The payloads of the last k frames, one after another.
LastPayloads(k) ==
    Flatten([j \in 1..k |-> SliceFrom(frames[Len(frames) - k + j].bytes, 8)])

\* pollBuffer is made of whole payloads: those of the frames since the last
\* record.
WholePayloads == \E k \in 0..Len(frames) : pollBuffer = LastPayloads(k)

\* A frame that brings the accumulated payload above 64 bytes gives the
\* record of the first 64 bytes and leaves the accumulator empty.
ExcessStep ==
    Len(frames') = Len(frames) + 1 =>
        LET accumulated == pollBuffer \o SliceFrom(frames'[Len(frames')].bytes, 8)
            first64     == Slice(accumulated, 0, 64)
        IN  Len(accumulated) > 64 =>
                /\ pollBuffer' = <<>>
                /\ Readings(log') = Readings(log) \o
                       [i \in 1..16 |-> [sev |-> "response", tag |-> "Sensor",
                                         data |-> <<i, GetUint32(first64, 4 * (i - 1))>>]]

\* C36: when a POLL frame brings the accumulated payload above 64 bytes the
\* record is built from the first 64 bytes and the rest is dropped with the
\* reset: the next accumulation starts with the next frame's payload.
PollExcessDropped == [][ExcessStep]_vars /\ []WholePayloads

\* Payloads of 40 and 40 bytes have given one record, and the accumulator
\* holds the 24 bytes of the third frame alone.
PollExcessDroppedWitness ==
    /\ Len(frames) = 3
    /\ Len(frames[1].bytes) = 8 + 40
    /\ Len(frames[2].bytes) = 8 + 40
    /\ Records(log) = 1
    /\ pollBuffer = [i \in 1..24 |-> i]


(***************************************************************************)
(* Disconnecting and connecting again in the middle of a stream            *)
(***************************************************************************)
\* An OBCP frame, a POLL frame, the first chunk of a 2-chunk image, a GYRO
\* frame and a text line.
reconnectStream ==
    frameOBCP \o PollFrame(3) \o ChunkLine(tagSEND, payloadABC, 2, 0) \o frameGYRO \o textOK

\* The operator connects and disconnects while the port delivers pieces.
Reconnecting ==
    /\ SessionCalls < MaxSessionCalls
    /\ \/ Connect
       \/ DeliverSome
       \/ disconnect

InitReconnect == Loaded /\ stream = reconnectStream

NextReconnect == Reconnecting \/ ReadLoopEnds \/ Disconnected

SpecReconnect == InitReconnect /\ [][NextReconnect]_vars

\* A step that delivers nothing leaves the buffers and the tables alone.
SurvivesStep ==
    pos' = pos =>
        UNCHANGED <<dataBuffer, pollBuffer, obclDataArray, imageReceptions, imagePacketBuffer>>

\* A delivery hands over the frames, and leaves the bytes, that the framer
\* makes of what was in dataBuffer before with the delivered bytes behind.
TogetherStep ==
    pos' # pos =>
        /\ NewFrames = FramedFrom(AtLoopStart).frames
        /\ dataBuffer' = FramedFrom(AtLoopStart).dataBuffer

\* C37: disconnect and connect leave dataBuffer, pollBuffer, obclDataArray,
\* imageReceptions and imagePacketBuffer unchanged, and the bytes of a
\* partial frame buffered before a disconnect are framed together with the
\* first bytes delivered after the next connect.
SurvivesReconnect == [][SurvivesStep /\ TogetherStep]_vars

\* After the first 8 bytes of the GYRO frame, a disconnect and a second
\* connect, the rest of the stream has come and the GYRO frame was handed
\* over whole; the accumulators and the reception are as before.
SurvivesReconnectWitness ==
    /\ calls.connects = 2
    /\ calls.disconnects = 1
    /\ calls.deliveries = 2
    /\ pos = Len(stream)
    /\ \E n \in 1..Len(frames) : frames[n].bytes = frameGYRO
    /\ \E n \in 1..Len(log) :
           /\ log[n].tag = "Disconnected from Ground Station"
           /\ \E m \in 1..(n - 1) : log[m].tag = "Image progress"
    /\ pollBuffer # <<>>
    /\ obclDataArray # <<>>
    /\ MapHas(imageReceptions, ImageId(2))
    /\ dataBuffer = <<>>


(***************************************************************************)
(* Retransmission requests without a writer                                *)
(***************************************************************************)
MaxOfflineCalls == 5

OfflineCalls ==
    calls.connects + calls.disconnects + calls.commands + calls.deliveries + calls.requests

\* The operator connects, announces an image under a 30-character name,
\* asks for what a reception lacks and disconnects, while the port delivers
\* the image without chunks 2 and 7.
OperateOffline ==
    /\ OfflineCalls < MaxOfflineCalls
    /\ \/ Connect
       \/ sendCommand(strSEND_IMAGE \o <<32>> \o NameOfLength(30))
       \/ ReceiveMost
       \/ \E imageId \in MapKeys(imageReceptions) : requestRetransmission(imageId, Null)
       \/ disconnect

InitOffline == Loaded /\ stream = <<>>

NextOffline ==
    \/ OperateOffline
    \/ ReadLoopEnds
    \/ Disconnected
    \/ RetransmitWritten
    \/ Sleep
    \/ RetransmitWoken

SpecOffline == InitOffline /\ [][NextOffline]_vars

\* The step adds an error line with the tag to the log.
ReportsError(tag) ==
    \E n \in (Len(log) + 1)..Len(log') : log'[n].sev = "error" /\ log'[n].tag = tag

\* A call made without a writer reports the error, writes nothing and
\* leaves the receptions as they are.
OfflineCallStep ==
    (calls'.requests # calls.requests /\ writer = "null") =>
        /\ ReportsError("Not connected to satellite")
        /\ rt'.pc = "returned"
        /\ UNCHANGED <<written, imageReceptions, imagePacketBuffer>>

\* A call that wakes with batches left and no writer ends on an error and
\* writes nothing; a call that has ended so writes no more.
WriterGoneStep ==
    /\ (/\ rt.pc = "awaitDelay"
        /\ rt'.pc # "awaitDelay"
        /\ writer = "null"
        /\ rt.i + rt.perCommand < Len(rt.missing)) =>
           /\ ReportsError("Retransmission request error")
           /\ rt'.pc = "failed"
           /\ UNCHANGED <<written, imageReceptions, imagePacketBuffer>>
    /\ (rt.pc = "failed" /\ WritesCommand) => calls'.requests # calls.requests

\* C38: requestRetransmission without a writer reports an error, writes
\* nothing and leaves attempt counter, last-activity time and received set
\* unchanged; a writer that disappears while the call waits between two
\* batches ends the call with a reported error and no further write.
OfflineChangesNothing == [][OfflineCallStep /\ WriterGoneStep]_vars

\* A call has written its first command and failed after the disconnect
\* that came during its delay.
OfflineChangesNothingWitness ==
    /\ rt.pc = "failed"
    /\ writer = "null"
    /\ Len(CallLines(rt.call)) = 1
    /\ IndicesWritten(rt.call) = <<2>>
    /\ log[Len(log)].tag = "Retransmission request error"

\* A call was made for a reception after the disconnect.
OfflineCallWitness ==
    /\ writer = "null"
    /\ rt.pc = "returned"
    /\ imageReceptions # <<>>
    /\ log[Len(log)].tag = "Not connected to satellite"

=============================================================================
